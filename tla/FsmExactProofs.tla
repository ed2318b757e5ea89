--------------------------- MODULE FsmExactProofs ---------------------------
(***************************************************************************)
(* The emitted machine implements the process it was compiled from, for    *)
(* every tree: each step of the one is the step of the other               *)
(* (ExecutesTree).  The walk keeps, for every cut point it has begun and   *)
(* every store, the path that executing the statements one by one follows: *)
(* it is the first recorded one the store satisfies, and executing reaches *)
(* its end with what it says, or the first leg of the stack that the store *)
(* satisfies, and executing reaches the place where that leg stands        *)
(* (PathsExecute).  One lemma for each action of the walk keeps that, the  *)
(* machine then takes the path recorded, and its edge is the edge of the   *)
(* process.                                                                *)
(***************************************************************************)
EXTENDS FsmDecodeProofs

\* A frame as the process has it.
Bare(f) == [todo |-> f.todo, loop |-> f.loop, left |-> 0]

\* The frames around the first i of frames.
Above(frames, i) == SubSeq(frames, i + 1, Len(frames))

\* Stripping goes frame by frame.
LEMMA StripSeq ==
  ASSUME NEW S, NEW frames \in Seq(S)
  PROVE  /\ Strip(frames) \in Seq({Bare(f) : f \in S})
         /\ Len(Strip(frames)) = Len(frames)
         /\ Strip(frames) = <<>> <=> frames = <<>>
         /\ \A i \in 1 .. Len(frames) : Strip(frames)[i] = Bare(frames[i])
<1>1. DOMAIN frames = 1 .. Len(frames) /\ Len(frames) \in Nat
  BY LenProperties
<1>2. Strip(frames) = [i \in 1 .. Len(frames) |-> Bare(frames[i])]
  BY <1>1 DEF Strip, Bare
<1>3. \A i \in 1 .. Len(frames) : Bare(frames[i]) \in {Bare(f) : f \in S}
  BY ElementOfSeq
<1> DEFINE T == {Bare(f) : f \in S}
<1>4. \A i \in 1 .. Len(frames) : Bare(frames[i]) \in T
  BY <1>3
<1> HIDE DEF T
<1>5. [i \in 1 .. Len(frames) |-> Bare(frames[i])] \in Seq(T)
  BY <1>1, <1>4, IsASeq
<1>6. Len(Strip(frames)) = Len(frames)
  BY <1>1, <1>2, <1>5, LenProperties
<1>7. Strip(frames) \in Seq(T)
  BY <1>2, <1>5
<1>8. Strip(frames) = <<>> <=> frames = <<>>
  BY <1>1, <1>6, <1>7, EmptySeq, LenProperties
<1> QED
  BY <1>2, <1>6, <1>7, <1>8 DEF T

\* Two sequences of the same length are the same if they agree everywhere.
LEMMA SameSeq ==
  ASSUME NEW S, NEW a \in Seq(S), NEW b \in Seq(S), Len(a) = Len(b),
         \A i \in 1 .. Len(a) : a[i] = b[i]
  PROVE  a = b
BY SeqEqual

\* Stripping a stack of frames strips its first and the rest.
LEMMA StripConcat ==
  ASSUME NEW S, NEW f \in S, NEW frames \in Seq(S)
  PROVE  Strip(<<f>> \o frames) = <<Bare(f)>> \o Strip(frames)
<1>1. /\ <<f>> \in Seq(S) /\ Len(<<f>>) = 1 /\ <<f>>[1] = f
  BY OneSeq
<1> DEFINE T == {Bare(g) : g \in S}
           all == <<f>> \o frames
<1>2. /\ all \in Seq(S) /\ Len(all) = 1 + Len(frames)
      /\ \A i \in 1 .. 1 + Len(frames) : all[i] = IF i <= 1 THEN f ELSE frames[i - 1]
  BY <1>1, ConcatProperties
<1>3. Strip(frames) \in Seq(T) /\ Len(Strip(frames)) = Len(frames)
      /\ \A i \in 1 .. Len(frames) : Strip(frames)[i] = Bare(frames[i])
  BY StripSeq
<1> HIDE DEF all
<1>4. Strip(all) \in Seq(T) /\ Len(Strip(all)) = Len(all)
      /\ \A i \in 1 .. Len(all) : Strip(all)[i] = Bare(all[i])
  BY <1>2, StripSeq
<1>5. Bare(f) \in T
  OBVIOUS
<1> HIDE DEF T
<1>6. <<Bare(f)>> \in Seq(T) /\ Len(<<Bare(f)>>) = 1 /\ <<Bare(f)>>[1] = Bare(f)
  BY <1>5, OneSeq
<1>7. /\ <<Bare(f)>> \o Strip(frames) \in Seq(T)
      /\ Len(<<Bare(f)>> \o Strip(frames)) = 1 + Len(frames)
      /\ \A i \in 1 .. 1 + Len(frames) :
           (<<Bare(f)>> \o Strip(frames))[i] = IF i <= 1 THEN Bare(f) ELSE Strip(frames)[i - 1]
  BY <1>3, <1>6, ConcatProperties
<1>8. Len(frames) \in Nat
  BY LenProperties
<1>9. ASSUME NEW i \in 1 .. 1 + Len(frames)
      PROVE  Strip(all)[i] = (<<Bare(f)>> \o Strip(frames))[i]
  <2>1. CASE i = 1
    BY <1>2, <1>4, <1>7, <1>8, <2>1
  <2>2. CASE i # 1
    <3>1. i - 1 \in 1 .. Len(frames) /\ ~(i <= 1)
      BY <1>8, <2>2
    <3> QED
      BY <1>2, <1>3, <1>4, <1>7, <3>1
  <2> QED
    BY <2>1, <2>2
<1> DEFINE b == <<Bare(f)>> \o Strip(frames)
<1>10. Strip(all) = b
  <2>1. b \in Seq(T) /\ Len(b) = Len(Strip(all)) /\ \A i \in 1 .. Len(Strip(all)) : Strip(all)[i] = b[i]
    BY <1>2, <1>4, <1>7, <1>9
  <2> HIDE DEF b
  <2> QED
    BY <1>4, <2>1, SameSeq
<1> QED
  BY <1>10 DEF all

\* And so the first frame of what is stripped is the first, stripped.
LEMMA StripTail ==
  ASSUME NEW S, NEW frames \in Seq(S), frames # <<>>
  PROVE  /\ Strip(frames) # <<>>
         /\ Head(Strip(frames)) = Bare(Head(frames))
         /\ Tail(Strip(frames)) = Strip(Tail(frames))
         /\ frames = <<Head(frames)>> \o Tail(frames)
<1> DEFINE f == Head(frames)
           rest == Tail(frames)
<1>1. f \in S /\ rest \in Seq(S)
  BY HeadTailProperties
<1>2. frames = <<f>> \o rest
  OBVIOUS
<1> HIDE DEF f, rest
<1>3. Strip(frames) = <<Bare(f)>> \o Strip(rest)
  BY <1>1, <1>2, StripConcat
<1>4. Strip(rest) \in Seq({Bare(g) : g \in S})
  BY <1>1, StripSeq
<1>5. Head(<<Bare(f)>> \o Strip(rest)) = Bare(f) /\ Tail(<<Bare(f)>> \o Strip(rest)) = Strip(rest)
  BY <1>4
<1>6. Strip(frames) # <<>>
  BY StripSeq
<1> QED
  BY <1>2, <1>3, <1>5, <1>6 DEF f, rest

\* The frames around come with theirs.
LEMMA AboveSeq ==
  ASSUME NEW S, NEW frames \in Seq(S), NEW i \in 0 .. Len(frames)
  PROVE  /\ Above(frames, i) \in Seq(S)
         /\ Len(Above(frames, i)) = Len(frames) - i
         /\ \A k \in 1 .. Len(frames) - i : Above(frames, i)[k] = frames[i + k]
<1>1. Len(frames) \in Nat
  BY LenProperties
<1>2. \A j \in i + 1 .. Len(frames) : frames[j] \in S
  BY <1>1, ElementOfSeq
<1>3. /\ Above(frames, i) \in Seq(S)
      /\ Len(Above(frames, i)) = IF i + 1 <= Len(frames) THEN Len(frames) - (i + 1) + 1 ELSE 0
      /\ \A k \in 1 .. Len(frames) - (i + 1) + 1 : Above(frames, i)[k] = frames[i + 1 + k - 1]
  BY <1>1, <1>2, SubSeqProperties DEF Above
<1> QED
  BY <1>1, <1>3

\* What is above a frame is stripped as the whole stack is.
LEMMA StripAbove ==
  ASSUME NEW S, NEW frames \in Seq(S), NEW i \in 0 .. Len(frames)
  PROVE  Strip(Above(frames, i)) = Above(Strip(frames), i)
<1> DEFINE T == {Bare(g) : g \in S}
<1>1. Len(frames) \in Nat
  BY LenProperties
<1>2. /\ Above(frames, i) \in Seq(S) /\ Len(Above(frames, i)) = Len(frames) - i
      /\ \A k \in 1 .. Len(frames) - i : Above(frames, i)[k] = frames[i + k]
  BY AboveSeq
<1>3. /\ Strip(frames) \in Seq(T) /\ Len(Strip(frames)) = Len(frames)
      /\ \A k \in 1 .. Len(frames) : Strip(frames)[k] = Bare(frames[k])
  BY StripSeq
<1>4. /\ Strip(Above(frames, i)) \in Seq(T) /\ Len(Strip(Above(frames, i))) = Len(Above(frames, i))
      /\ \A k \in 1 .. Len(Above(frames, i)) : Strip(Above(frames, i))[k] = Bare(Above(frames, i)[k])
  BY <1>2, StripSeq
<1> HIDE DEF T
<1>5. /\ Above(Strip(frames), i) \in Seq(T) /\ Len(Above(Strip(frames), i)) = Len(frames) - i
      /\ \A k \in 1 .. Len(frames) - i : Above(Strip(frames), i)[k] = Strip(frames)[i + k]
  BY <1>3, AboveSeq
<1>6. \A k \in 1 .. Len(frames) - i : i + k \in 1 .. Len(frames)
  BY <1>1
<1>7. \A k \in 1 .. Len(frames) - i : Strip(Above(frames, i))[k] = Above(Strip(frames), i)[k]
  BY <1>2, <1>3, <1>4, <1>5, <1>6
<1> QED
  BY <1>2, <1>4, <1>5, <1>7, SameSeq

\* What is above a frame above a frame.
LEMMA AboveAbove ==
  ASSUME NEW S, NEW frames \in Seq(S), NEW i \in 0 .. Len(frames), NEW k \in 0 .. Len(frames) - i
  PROVE  Above(Above(frames, i), k) = Above(frames, i + k)
<1>1. Len(frames) \in Nat /\ i + k \in 0 .. Len(frames)
  BY LenProperties
<1>2. /\ Above(frames, i) \in Seq(S) /\ Len(Above(frames, i)) = Len(frames) - i
      /\ \A j \in 1 .. Len(frames) - i : Above(frames, i)[j] = frames[i + j]
  BY AboveSeq
<1>3. /\ Above(frames, i + k) \in Seq(S) /\ Len(Above(frames, i + k)) = Len(frames) - (i + k)
      /\ \A j \in 1 .. Len(frames) - (i + k) : Above(frames, i + k)[j] = frames[(i + k) + j]
  BY <1>1, AboveSeq
<1> DEFINE a == Above(frames, i)
<1>4. k \in 0 .. Len(a)
  BY <1>2
<1>5. a \in Seq(S)
  BY <1>2
<1> HIDE DEF a
<1>6. /\ Above(a, k) \in Seq(S) /\ Len(Above(a, k)) = Len(a) - k
      /\ \A j \in 1 .. Len(a) - k : Above(a, k)[j] = a[k + j]
  BY <1>4, <1>5, AboveSeq
<1>7. Len(a) = Len(frames) - i /\ \A j \in 1 .. Len(frames) - i : a[j] = frames[i + j]
  BY <1>2 DEF a
<1>8. \A j \in 1 .. Len(frames) - (i + k) :
        k + j \in 1 .. Len(frames) - i /\ i + (k + j) = (i + k) + j /\ j \in 1 .. (Len(frames) - i) - k
  BY <1>1
<1>9. \A j \in 1 .. Len(frames) - (i + k) : Above(a, k)[j] = Above(frames, i + k)[j]
  BY <1>3, <1>6, <1>7, <1>8
<1>10. Len(Above(a, k)) = Len(Above(frames, i + k))
  BY <1>1, <1>3, <1>6, <1>7
<1>11. Above(a, k) = Above(frames, i + k)
  <2> DEFINE u == Above(a, k)
             v == Above(frames, i + k)
  <2>1. u \in Seq(S) /\ v \in Seq(S) /\ Len(u) = Len(v) /\ \A j \in 1 .. Len(u) : u[j] = v[j]
    BY <1>1, <1>3, <1>6, <1>9, <1>10
  <2> HIDE DEF u, v
  <2>2. u = v
    BY <2>1, SameSeq
  <2> QED
    BY <2>2 DEF u, v
<1> QED
  BY <1>11 DEF a

\* One more frame puts every other one place further out.
LEMMA AboveConcat ==
  ASSUME NEW S, NEW f \in S, NEW frames \in Seq(S)
  PROVE  /\ <<f>> \o frames \in Seq(S)
         /\ Len(<<f>> \o frames) = 1 + Len(frames)
         /\ (<<f>> \o frames)[1] = f
         /\ Above(<<f>> \o frames, 1) = frames
         /\ \A i \in 1 .. Len(frames) :
              (<<f>> \o frames)[i + 1] = frames[i] /\ Above(<<f>> \o frames, i + 1) = Above(frames, i)
<1>1. /\ <<f>> \in Seq(S) /\ Len(<<f>>) = 1 /\ <<f>>[1] = f
  BY OneSeq
<1> DEFINE all == <<f>> \o frames
<1>2. /\ all \in Seq(S) /\ Len(all) = 1 + Len(frames)
      /\ \A i \in 1 .. 1 + Len(frames) : all[i] = IF i <= 1 THEN f ELSE frames[i - 1]
  BY <1>1, ConcatProperties
<1> HIDE DEF all
<1>3. Len(frames) \in Nat /\ 1 \in 0 .. Len(all)
  BY <1>2, LenProperties
<1>4. Above(all, 1) = frames
  <2>1. /\ Above(all, 1) \in Seq(S) /\ Len(Above(all, 1)) = Len(all) - 1
        /\ \A k \in 1 .. Len(all) - 1 : Above(all, 1)[k] = all[1 + k]
    BY <1>2, <1>3, AboveSeq
  <2>2. \A k \in 1 .. Len(frames) : Above(all, 1)[k] = frames[k]
    <3> SUFFICES ASSUME NEW k \in 1 .. Len(frames) PROVE Above(all, 1)[k] = frames[k]
      OBVIOUS
    <3>1. 1 + k \in 1 .. 1 + Len(frames) /\ ~(1 + k <= 1) /\ (1 + k) - 1 = k /\ k \in 1 .. Len(all) - 1
      BY <1>2, <1>3
    <3> QED
      BY <1>2, <2>1, <3>1
  <2>3. Len(Above(all, 1)) = Len(frames)
    BY <1>2, <1>3, <2>1
  <2> QED
    BY <2>1, <2>2, <2>3, SameSeq
<1>5. ASSUME NEW i \in 1 .. Len(frames)
      PROVE  all[i + 1] = frames[i] /\ Above(all, i + 1) = Above(frames, i)
  <2>1. i + 1 \in 1 .. 1 + Len(frames) /\ ~(i + 1 <= 1) /\ (i + 1) - 1 = i /\ i \in 0 .. Len(all) - 1 /\ 1 + i = i + 1
    BY <1>2, <1>3
  <2>2. Above(Above(all, 1), i) = Above(all, 1 + i)
    BY <1>2, <1>3, <2>1, AboveAbove
  <2> QED
    BY <1>2, <1>4, <2>1, <2>2
<1> QED
  BY <1>2, <1>3, <1>4, <1>5 DEF all

\* The walk pushes a statement, or a block, as the process does: one frame, or
\* none for a missing branch.
LEMMA StripPush ==
  ASSUME NEW S, NEW frames \in Seq(S), NEW n, NEW loop
  PROVE  Strip(PushFrame(frames, n, loop))
           = IF n = NoNode THEN Strip(frames)
             ELSE <<[todo |-> Process!Listed(nodes, n), loop |-> loop, left |-> 0]>> \o Strip(frames)
<1>1. CASE n = NoNode
  BY <1>1 DEF PushFrame
<1>2. CASE n # NoNode
  <2> DEFINE f == [todo  |-> IF nodes[n].kind = "block" THEN nodes[n].kids ELSE <<n>>,
                   loop  |-> loop,
                   decls |-> IF nodes[n].kind = "block" THEN nodes[n].decls ELSE {}]
             T == S \cup {f}
  <2>1. PushFrame(frames, n, loop) = <<f>> \o frames
    BY <1>2 DEF PushFrame
  <2>2. Bare(f) = [todo |-> Process!Listed(nodes, n), loop |-> loop, left |-> 0]
    BY <1>2 DEF Bare, Process!Listed
  <2> HIDE DEF f
  <2>3. f \in T /\ frames \in Seq(T)
    BY SeqMonotonic
  <2> HIDE DEF T
  <2>4. Strip(<<f>> \o frames) = <<Bare(f)>> \o Strip(frames)
    BY <2>3, StripConcat
  <2> QED
    BY <1>2, <2>1, <2>2, <2>4
<1> QED
  BY <1>1, <1>2

\* Entering a statement is the same for the leg and for the thread.
LEMMA StripPushed ==
  ASSUME NEW S, NEW frames \in Seq(S), NEW n
  PROVE  Strip(PushFrame(frames, n, NoNode)) = Process!Pushed(nodes, Strip(frames), n)
BY StripPush DEF Process!Pushed

\* And the body of a loop as a lap of it.
LEMMA StripLooped ==
  ASSUME NEW S, NEW frames \in Seq(S), NEW loop, nodes[loop].kids[1] # NoNode
  PROVE  Strip(PushFrame(frames, nodes[loop].kids[1], loop))
           = Process!Looped(nodes, Strip(frames), loop, 0)
BY StripPush DEF Process!Looped

\* A stripped stack has nothing left to strip.
LEMMA StripTwice ==
  ASSUME NEW S, NEW frames \in Seq(S)
  PROVE  Strip(Strip(frames)) = Strip(frames)
<1> DEFINE T == {Bare(f) : f \in S}
           a == Strip(frames)
<1>1. a \in Seq(T) /\ Len(a) = Len(frames) /\ \A i \in 1 .. Len(frames) : a[i] = Bare(frames[i])
  BY StripSeq
<1> HIDE DEF a
<1>2. ASSUME NEW i \in 1 .. Len(a) PROVE Bare(a[i]) = a[i]
  BY <1>1, <1>2 DEF Bare
<1>3. \A f \in T : Bare(f) = f
  BY DEF Bare
<1>4. {Bare(f) : f \in T} = T
  BY <1>3
<1> HIDE DEF T
<1>5. /\ Strip(a) \in Seq(T) /\ Len(Strip(a)) = Len(a)
      /\ \A i \in 1 .. Len(a) : Strip(a)[i] = Bare(a[i])
  BY <1>1, <1>4, StripSeq
<1>6. Strip(a) = a
  BY <1>1, <1>2, <1>5, SameSeq
<1> QED
  BY <1>6 DEF a

\* What a stripped frame keeps.
LEMMA BareFields ==
  ASSUME NEW f
  PROVE  Bare(f).todo = f.todo /\ Bare(f).loop = f.loop /\ Bare(f).left = 0
BY DEF Bare

\* The same frame with other statements left.
LEMMA BareExcept ==
  ASSUME NEW a, NEW b, NEW c
  PROVE  [[todo |-> a, loop |-> b, left |-> 0] EXCEPT !.todo = c] = [todo |-> c, loop |-> b, left |-> 0]
OBVIOUS

\* Past the statement at hand.
LEMMA StripOnward ==
  ASSUME NEW S, NEW frames \in Seq(S), frames # <<>>,
         NEW f, f.todo = Tail(Head(frames).todo), f.loop = Head(frames).loop
  PROVE  Process!Onward(Strip(frames)) = Strip(<<f>> \o Tail(frames))
<1>1. /\ Head(Strip(frames)) = Bare(Head(frames)) /\ Tail(Strip(frames)) = Strip(Tail(frames))
      /\ Tail(frames) \in Seq(S)
  BY StripTail, HeadTailProperties
<1>2. [Bare(Head(frames)) EXCEPT !.todo = Tail(@)] = Bare(f)
  <2> DEFINE r == Bare(Head(frames))
             a == Head(frames).todo
             b == Head(frames).loop
             c == Tail(a)
  <2>1. r = [todo |-> a, loop |-> b, left |-> 0] /\ r.todo = a
    BY BareFields DEF Bare
  <2>2. Bare(f) = [todo |-> c, loop |-> b, left |-> 0]
    BY DEF Bare
  <2>3. Tail(r.todo) = c
    BY <2>1
  <2> HIDE DEF a, b, c, r
  <2>4. [r EXCEPT !.todo = c] = [todo |-> c, loop |-> b, left |-> 0]
    BY <2>1, BareExcept
  <2>5. [r EXCEPT !.todo = Tail(@)] = [r EXCEPT !.todo = c]
    BY <2>3
  <2>6. [r EXCEPT !.todo = Tail(@)] = Bare(f)
    BY <2>2, <2>4, <2>5
  <2> QED
    BY <2>6 DEF r
<1> DEFINE T == S \cup {f}
<1>3. f \in T /\ Tail(frames) \in Seq(T)
  BY <1>1, SeqMonotonic
<1> HIDE DEF T
<1>4. Strip(<<f>> \o Tail(frames)) = <<Bare(f)>> \o Strip(Tail(frames))
  BY <1>3, StripConcat
<1> QED
  BY <1>1, <1>2, <1>4 DEF Process!Onward

\* A jump leaves the same frames in the walk and in the process.
LEMMA StripInnermost ==
  ASSUME NEW S, NEW frames \in Seq(S)
  PROVE  Process!InnermostBody(Strip(frames)) = InnermostLoop(frames)
<1> DEFINE a == Strip(frames)
<1>1. a \in Seq({Bare(f) : f \in S}) /\ Len(a) = Len(frames) /\ \A i \in 1 .. Len(frames) : a[i] = Bare(frames[i])
  BY StripSeq
<1>2. DOMAIN a = 1 .. Len(frames) /\ DOMAIN frames = 1 .. Len(frames) /\ Len(frames) \in Nat
  BY <1>1, LenProperties
<1> HIDE DEF a
<1>3. \A i \in 1 .. Len(frames) : a[i].loop = frames[i].loop
  <2> SUFFICES ASSUME NEW i \in 1 .. Len(frames) PROVE a[i].loop = frames[i].loop
    OBVIOUS
  <2>1. a[i] = Bare(frames[i])
    BY <1>1
  <2> QED
    BY <2>1, BareFields
<1>4. \A i \in 1 .. Len(frames) : \A j \in 1 .. i - 1 : j \in 1 .. Len(frames)
  BY <1>2
<1>5. Process!InnermostBody(a) = InnermostLoop(frames)
  BY <1>2, <1>3, <1>4 DEF Process!InnermostBody, InnermostLoop
<1> QED
  BY <1>5 DEF a

\* At most one frame is that of the innermost body.
LEMMA OneInnermost ==
  ASSUME NEW S, NEW frames \in Seq(S), NEW i \in InnermostLoop(frames), NEW j \in InnermostLoop(frames)
  PROVE  i = j
<1>1. i \in 1 .. Len(frames) /\ j \in 1 .. Len(frames) /\ Len(frames) \in Nat
  BY LenProperties DEF InnermostLoop
<1>2. ~(i < j) /\ ~(j < i)
  <2>1. i < j => i \in 1 .. j - 1
    BY <1>1
  <2>2. j < i => j \in 1 .. i - 1
    BY <1>1
  <2> QED
    BY <2>1, <2>2 DEF InnermostLoop
<1> QED
  BY <1>1, <1>2

-----------------------------------------------------------------------------
(* The place of a statement *)

\* A frame and its statements are where they are in the tree.
FrameInPlace(f, above) ==
  /\ f.decls \subseteq Temps
  /\ f.loop # NoNode => Around[name][f.loop] = Strip(above)
  /\ \A j \in DOMAIN f.todo :
       /\ Around[name][f.todo[j]]
            = Strip(<<[f EXCEPT !.todo = SubSeq(@, j + 1, Len(@))]>> \o above)
       /\ nodes[f.todo[j]].kind = "block" =>
            \E b \in NodeId : nodes[b].kind = "block"
              /\ \E k \in DOMAIN nodes[b].kids : nodes[b].kids[k] = f.todo[j]

\* Every statement the frames have left is where it is in the tree.
InPlace(frames) == \A i \in DOMAIN frames : FrameInPlace(frames[i], Above(frames, i))

\* What is around a frame in place is in place.
LEMMA InPlaceAbove ==
  ASSUME NEW S, NEW frames \in Seq(S), NEW i \in 0 .. Len(frames), InPlace(frames)
  PROVE  InPlace(Above(frames, i))
<1> DEFINE a == Above(frames, i)
<1>1. a \in Seq(S) /\ Len(a) = Len(frames) - i /\ \A k \in 1 .. Len(frames) - i : a[k] = frames[i + k]
  BY AboveSeq
<1>2. DOMAIN a = 1 .. Len(frames) - i /\ DOMAIN frames = 1 .. Len(frames) /\ Len(frames) \in Nat
  BY <1>1, LenProperties
<1>3. ASSUME NEW k \in 1 .. Len(frames) - i PROVE FrameInPlace(a[k], Above(a, k))
  <2>1. i + k \in 1 .. Len(frames) /\ k \in 0 .. Len(frames) - i
    BY <1>2
  <2>2. Above(a, k) = Above(frames, i + k)
    BY <2>1, AboveAbove
  <2>3. FrameInPlace(frames[i + k], Above(frames, i + k))
    BY <1>2, <2>1 DEF InPlace
  <2> QED
    BY <1>1, <2>2, <2>3
<1> HIDE DEF a
<1>4. InPlace(a)
  BY <1>2, <1>3 DEF InPlace
<1> QED
  BY <1>4 DEF a

\* And so is the stack without its first frame.
LEMMA InPlaceTail ==
  ASSUME NEW S, NEW frames \in Seq(S), frames # <<>>, InPlace(frames)
  PROVE  InPlace(Tail(frames)) /\ FrameInPlace(Head(frames), Tail(frames))
<1>1. Len(frames) \in Nat /\ Len(frames) # 0 /\ DOMAIN frames = 1 .. Len(frames)
  BY EmptySeq, LenProperties
<1>2. 1 \in 0 .. Len(frames) /\ 1 \in DOMAIN frames
  BY <1>1
<1>3. Above(frames, 1) = Tail(frames)
  BY TailIsSubSeq DEF Above
<1>4. Head(frames) = frames[1]
  OBVIOUS
<1> QED
  BY <1>2, <1>3, <1>4, InPlaceAbove DEF InPlace

\* A stack in place under a frame in place is one in place.
LEMMA InPlaceConcat ==
  ASSUME NEW S, NEW f \in S, NEW frames \in Seq(S), InPlace(frames), FrameInPlace(f, frames)
  PROVE  InPlace(<<f>> \o frames)
<1> DEFINE all == <<f>> \o frames
<1>1. /\ all \in Seq(S) /\ Len(all) = 1 + Len(frames) /\ all[1] = f /\ Above(all, 1) = frames
      /\ \A i \in 1 .. Len(frames) : all[i + 1] = frames[i] /\ Above(all, i + 1) = Above(frames, i)
  BY AboveConcat
<1> HIDE DEF all
<1>2. Len(frames) \in Nat /\ DOMAIN frames = 1 .. Len(frames) /\ DOMAIN all = 1 .. 1 + Len(frames)
  BY <1>1, LenProperties
<1>3. ASSUME NEW i \in 1 .. 1 + Len(frames) PROVE FrameInPlace(all[i], Above(all, i))
  <2>1. CASE i = 1
    BY <1>1, <2>1
  <2>2. CASE i # 1
    <3>1. i - 1 \in 1 .. Len(frames) /\ (i - 1) + 1 = i
      BY <1>2, <2>2
    <3>2. FrameInPlace(frames[i - 1], Above(frames, i - 1))
      BY <1>2, <3>1 DEF InPlace
    <3>3. all[(i - 1) + 1] = frames[i - 1] /\ Above(all, (i - 1) + 1) = Above(frames, i - 1)
      BY <1>1, <3>1
    <3> QED
      BY <3>1, <3>2, <3>3
  <2> QED
    BY <2>1, <2>2
<1>4. InPlace(all)
  BY <1>2, <1>3 DEF InPlace
<1> QED
  BY <1>4 DEF all

\* Past its first statement a frame stays in place, and that statement was.
LEMMA InPlaceOnward ==
  ASSUME NEW f \in Frame, NEW above, FrameInPlace(f, above), f.todo # <<>>
  PROVE  /\ FrameInPlace([f EXCEPT !.todo = Tail(@)], above)
         /\ Around[name][Head(f.todo)] = Strip(<<[f EXCEPT !.todo = Tail(@)]>> \o above)
         /\ nodes[Head(f.todo)].kind = "block" =>
              \E b \in NodeId : nodes[b].kind = "block"
                /\ \E k \in DOMAIN nodes[b].kids : nodes[b].kids[k] = Head(f.todo)
<1> DEFINE todo == f.todo
           g == [f EXCEPT !.todo = Tail(@)]
<1>1. todo \in Seq(NodeId) /\ todo # <<>>
  BY DEF Frame
<1>2. /\ Len(todo) \in Nat /\ Len(todo) >= 1 /\ DOMAIN todo = 1 .. Len(todo)
      /\ Tail(todo) \in Seq(NodeId) /\ Len(Tail(todo)) = Len(todo) - 1
      /\ \A i \in 1 .. Len(todo) - 1 : Tail(todo)[i] = todo[i + 1]
      /\ Head(todo) = todo[1] /\ Tail(todo) = SubSeq(todo, 2, Len(todo))
  BY <1>1, EmptySeq, LenProperties, HeadTailProperties, TailIsSubSeq
<1>3. /\ g.todo = Tail(todo) /\ g.loop = f.loop /\ g.decls = f.decls
      /\ \A q : [g EXCEPT !.todo = q] = [f EXCEPT !.todo = q]
  BY DEF Frame
<1>4. ASSUME NEW j \in 1 .. Len(todo)
      PROVE  /\ Around[name][todo[j]] = Strip(<<[f EXCEPT !.todo = SubSeq(todo, j + 1, Len(todo))]>> \o above)
             /\ nodes[todo[j]].kind = "block" =>
                  \E b \in NodeId : nodes[b].kind = "block"
                    /\ \E k \in DOMAIN nodes[b].kids : nodes[b].kids[k] = todo[j]
  BY <1>2 DEF FrameInPlace
<1>5. ASSUME NEW j \in 1 .. Len(todo) - 1
      PROVE  SubSeq(Tail(todo), j + 1, Len(Tail(todo))) = SubSeq(todo, (j + 1) + 1, Len(todo))
  <2>1. Above(todo, 1) = Tail(todo)
    BY <1>2 DEF Above
  <2>2. Above(Above(todo, 1), j) = Above(todo, 1 + j)
    BY <1>1, <1>2, AboveAbove
  <2>3. (1 + j) + 1 = (j + 1) + 1
    BY <1>2
  <2> QED
    BY <2>1, <2>2, <2>3 DEF Above
<1>6. DOMAIN Tail(todo) = 1 .. Len(todo) - 1
  BY <1>2, LenProperties
<1> HIDE DEF g, todo
<1>7. ASSUME NEW j \in 1 .. Len(todo) - 1
      PROVE  /\ Around[name][g.todo[j]] = Strip(<<[g EXCEPT !.todo = SubSeq(g.todo, j + 1, Len(g.todo))]>> \o above)
             /\ nodes[g.todo[j]].kind = "block" =>
                  \E b \in NodeId : nodes[b].kind = "block"
                    /\ \E k \in DOMAIN nodes[b].kids : nodes[b].kids[k] = g.todo[j]
  <2>1. j + 1 \in 1 .. Len(todo) /\ g.todo[j] = todo[j + 1]
    BY <1>2, <1>3
  <2>2. [g EXCEPT !.todo = SubSeq(g.todo, j + 1, Len(g.todo))]
          = [f EXCEPT !.todo = SubSeq(todo, (j + 1) + 1, Len(todo))]
    BY <1>3, <1>5
  <2> QED
    BY <1>4, <2>1, <2>2
<1>8. FrameInPlace(g, above)
  BY <1>3, <1>6, <1>7 DEF FrameInPlace
<1>9. 1 \in 1 .. Len(todo) /\ 1 + 1 = 2
  BY <1>2
<1>10. [f EXCEPT !.todo = SubSeq(todo, 1 + 1, Len(todo))] = g
  BY <1>2, <1>9 DEF g, todo
<1>11. Around[name][Head(todo)] = Strip(<<g>> \o above)
  BY <1>2, <1>4, <1>9, <1>10
<1>12. nodes[Head(todo)].kind = "block" =>
                  \E b \in NodeId : nodes[b].kind = "block"
                    /\ \E k \in DOMAIN nodes[b].kids : nodes[b].kids[k] = Head(todo)
  BY <1>2, <1>4, <1>9
<1> QED
  BY <1>8, <1>11, <1>12 DEF g, todo

\* A record of the first n statements of a thread.
IsRun(t, c, n, g) ==
  \A k \in 0 .. n : g[k] = IF k = 0 THEN c ELSE Process!Advance(t, g[k - 1])

\* There is a record of every length.
LEMMA RunExists ==
  ASSUME NEW t, NEW c, NEW n \in Nat
  PROVE  \E g : IsRun(t, c, n, g)
<1> DEFINE T == {k \in Nat : ~\E g : IsRun(t, c, k, g)}
<1> SUFFICES ASSUME T # {} PROVE FALSE
  OBVIOUS
<1>1. PICK k \in T : \A i \in T : k <= i
  <2>1. T \in SUBSET Nat
    OBVIOUS
  <2> HIDE DEF T
  <2> QED
    BY <2>1, LeastIndex
<1>2. CASE k = 0
  <2>1. IsRun(t, c, 0, [j \in 0 .. 0 |-> c])
    BY DEF IsRun
  <2> QED
    BY <1>2, <2>1
<1>3. CASE k # 0
  <2>1. k - 1 \in Nat /\ ~(k <= k - 1)
    BY <1>3
  <2>2. PICK g : IsRun(t, c, k - 1, g)
    BY <1>1, <2>1
  <2> DEFINE h == [j \in 0 .. k |-> IF j = k THEN Process!Advance(t, g[k - 1]) ELSE g[j]]
  <2>3. k - 1 \in 0 .. k - 1 /\ \A j \in 0 .. k : j # k => j \in 0 .. k - 1
    BY <2>1
  <2>4. ASSUME NEW j \in 0 .. k
        PROVE  h[j] = IF j = 0 THEN c ELSE Process!Advance(t, h[j - 1])
    <3>1. CASE j = k
      <4>1. k - 1 \in 0 .. k /\ k - 1 # k /\ j # 0
        BY <1>3, <2>1, <3>1
      <4> QED
        BY <3>1, <4>1
    <3>2. CASE j # k /\ j = 0
      BY <2>2, <2>3, <3>2 DEF IsRun
    <3>3. CASE j # k /\ j # 0
      <4>1. j - 1 \in 0 .. k /\ j - 1 # k /\ j \in 0 .. k - 1
        BY <2>1, <3>3
      <4>2. g[j] = Process!Advance(t, g[j - 1])
        BY <2>2, <3>3, <4>1 DEF IsRun
      <4> QED
        BY <3>3, <4>1, <4>2
    <3> QED
      BY <3>1, <3>2, <3>3
  <2> HIDE DEF h
  <2>5. IsRun(t, c, k, h)
    BY <2>4 DEF IsRun
  <2> QED
    BY <2>5
<1> QED
  BY <1>2, <1>3

\* Two records agree as far as both go.
LEMMA RunsAgree ==
  ASSUME NEW t, NEW c, NEW m \in Nat, NEW n \in Nat, NEW g, NEW h,
         IsRun(t, c, m, g), IsRun(t, c, n, h), NEW j \in 0 .. m, j <= n
  PROVE  g[j] = h[j]
<1> DEFINE T == {k \in Nat : k <= m /\ k <= n /\ g[k] # h[k]}
<1> SUFFICES ASSUME T # {} PROVE FALSE
  OBVIOUS
<1>1. PICK k \in T : \A i \in T : k <= i
  <2>1. T \in SUBSET Nat
    OBVIOUS
  <2> HIDE DEF T
  <2> QED
    BY <2>1, LeastIndex
<1>2. k \in 0 .. m /\ k \in 0 .. n
  OBVIOUS
<1>3. CASE k = 0
  BY <1>2, <1>3 DEF IsRun
<1>4. CASE k # 0
  <2>1. k - 1 \in Nat /\ k - 1 <= m /\ k - 1 <= n /\ ~(k <= k - 1)
    BY <1>2, <1>4
  <2>2. g[k - 1] = h[k - 1]
    BY <1>1, <2>1
  <2>3. g[k] = Process!Advance(t, g[k - 1]) /\ h[k] = Process!Advance(t, h[k - 1])
    BY <1>2, <1>4 DEF IsRun
  <2> QED
    BY <2>2, <2>3
<1> QED
  BY <1>3, <1>4

\* What a thread starts from.
Start(frames, s) == [frames |-> frames, store |-> s, writes |-> <<>>]

\* A thread is where its definition says after each number of statements.
LEMMA ExecutionUnfolds ==
  ASSUME NEW t, NEW frames, NEW s
  PROVE  /\ Process!Execution(t, frames, s)[0] = Start(frames, s)
         /\ \A n \in Nat : Process!Execution(t, frames, s)[n + 1]
                             = Process!Advance(t, Process!Execution(t, frames, s)[n])
<1> DEFINE c == Start(frames, s)
           run == Process!Execution(t, frames, s)
           Record_(n) == CHOOSE g : IsRun(t, c, n, g)
           f == [n \in Nat |-> Record_(n)[n]]
<1> HIDE DEF c
<1>1. \A n \in Nat : IsRun(t, c, n, Record_(n))
  BY RunExists
<1> HIDE DEF Record_
<1>2. f = [n \in Nat |-> IF n = 0 THEN c ELSE Process!Advance(t, f[n - 1])]
  <2>1. ASSUME NEW n \in Nat
        PROVE  f[n] = IF n = 0 THEN c ELSE Process!Advance(t, f[n - 1])
    <3>1. n \in 0 .. n /\ Record_(n)[n] = IF n = 0 THEN c ELSE Process!Advance(t, Record_(n)[n - 1])
      BY <1>1 DEF IsRun
    <3>2. CASE n # 0
      <4>1. n - 1 \in Nat /\ n - 1 \in 0 .. n - 1 /\ n - 1 <= n
        BY <3>2
      <4>2. Record_(n - 1)[n - 1] = Record_(n)[n - 1]
        BY <1>1, <4>1, RunsAgree
      <4> QED
        BY <3>1, <3>2, <4>1, <4>2
    <3> QED
      BY <3>1, <3>2
  <2> HIDE DEF f
  <2>2. f = [n \in Nat |-> f[n]]
    BY DEF f
  <2> QED
    BY <2>1, <2>2
<1>3. run = [n \in Nat |-> IF n = 0 THEN c ELSE Process!Advance(t, run[n - 1])]
  <2> HIDE DEF f
  <2> QED
    BY <1>2 DEF Process!Execution, c, Start
<1> HIDE DEF f, run
<1>4. run[0] = c
  BY <1>3
<1>5. \A n \in Nat : run[n + 1] = Process!Advance(t, run[n])
  <2> SUFFICES ASSUME NEW n \in Nat PROVE run[n + 1] = Process!Advance(t, run[n])
    OBVIOUS
  <2>1. n + 1 \in Nat /\ n + 1 # 0 /\ (n + 1) - 1 = n
    OBVIOUS
  <2> QED
    BY <1>3, <2>1
<1> QED
  BY <1>4, <1>5 DEF run, c

\* A thread that has ended its step stays there.
LEMMA HaltedStays ==
  ASSUME NEW t, NEW frames, NEW s, NEW m \in Nat, NEW n \in Nat, m <= n,
         Process!Halted(t, Process!Execution(t, frames, s)[m])
  PROVE  Process!Execution(t, frames, s)[n] = Process!Execution(t, frames, s)[m]
<1> DEFINE run == Process!Execution(t, frames, s)
           T == {k \in Nat : m <= k /\ run[k] # run[m]}
<1>1. /\ \A k \in Nat : run[k + 1] = Process!Advance(t, run[k])
      /\ Process!Halted(t, run[m])
  BY ExecutionUnfolds
<1> HIDE DEF run
<1> SUFFICES ASSUME T # {} PROVE FALSE
  BY DEF run
<1>2. PICK k \in T : \A i \in T : k <= i
  <2>1. T \in SUBSET Nat
    OBVIOUS
  <2> HIDE DEF T
  <2> QED
    BY <2>1, LeastIndex
<1>3. k # m /\ k - 1 \in Nat /\ m <= k - 1 /\ (k - 1) + 1 = k /\ ~(k <= k - 1)
  BY <1>2
<1>4. run[k - 1] = run[m]
  BY <1>2, <1>3
<1>5. run[k] = Process!Advance(t, run[m])
  BY <1>1, <1>3, <1>4
<1>6. run[k] = run[m]
  BY <1>1, <1>5 DEF Process!Advance
<1> QED
  BY <1>2, <1>6

\* A configuration of the process, field by field.
Config(frames, s, writes) == [frames |-> frames, store |-> s, writes |-> writes]

\* Its fields, and what changing one of them gives.
LEMMA ConfigFields ==
  ASSUME NEW a, NEW b, NEW c
  PROVE  /\ Config(a, b, c).frames = a /\ Config(a, b, c).store = b /\ Config(a, b, c).writes = c
         /\ \A d : [Config(a, b, c) EXCEPT !.frames = d] = Config(d, b, c)
         /\ \A d : [Config(a, b, c) EXCEPT !.store = d] = Config(a, d, c)
         /\ \A d : [Config(a, b, c) EXCEPT !.writes = d] = Config(a, b, d)
BY DEF Config

\* The statement at hand is executed, unless it is a wait.
LEMMA AdvanceStatement ==
  ASSUME NEW t, NEW c, c.frames # <<>>, Head(c.frames).todo # <<>>,
         t[Head(Head(c.frames).todo)].kind # "wait"
  PROVE  Process!Advance(t, c) = Process!Statement(t, Head(Head(c.frames).todo), c)
BY DEF Process!Advance, Process!Halted, Process!AtStatement, Process!Executed

\* At the end of a list the process leaves it, or ends a lap of its loop.
LEMMA AdvanceEnd ==
  ASSUME NEW t, NEW fr, NEW st, NEW wr, fr # <<>>, Head(fr).todo = <<>>
  PROVE  Process!Advance(t, Config(fr, st, wr))
           = IF Head(fr).loop = NoNode THEN Config(Tail(fr), st, wr)
             ELSE Process!LapDone(t, Config(Tail(fr), st, wr), Head(fr))
<1> DEFINE c == Config(fr, st, wr)
<1>0. c.frames = fr /\ \A d : [c EXCEPT !.frames = d] = Config(d, st, wr)
  BY ConfigFields
<1> HIDE DEF c
<1>1. c.frames = fr /\ [c EXCEPT !.frames = Tail(@)] = Config(Tail(fr), st, wr)
  BY <1>0
<1>2. ~Process!Halted(t, c)
  BY <1>1 DEF Process!Halted, Process!AtStatement
<1>3. Process!Advance(t, c) = Process!Executed(t, c)
  BY <1>2 DEF Process!Advance
<1>4. Process!Executed(t, c)
        = IF Head(fr).loop = NoNode THEN [c EXCEPT !.frames = Tail(@)]
          ELSE Process!LapDone(t, [c EXCEPT !.frames = Tail(@)], Head(fr))
  BY <1>1 DEF Process!Executed
<1> QED
  BY <1>1, <1>3, <1>4 DEF c

\* At the head of a while or a forever the process starts a lap or goes past.
LEMMA AtHeadIs ==
  ASSUME NEW t, NEW fr, NEW st, NEW wr, NEW n, t[n].kind \in {"while", "forever"}
  PROVE  Process!AtHead(t, Config(fr, st, wr), n, 0)
           = IF t[n].kind = "forever" \/ Process!True(t[n].tests[1], st)
             THEN Config(Process!Looped(t, fr, n, 0), st, wr)
             ELSE Config(fr, st, wr)
<1> DEFINE c == Config(fr, st, wr)
           up == Process!Looped(t, fr, n, 0)
           test == Process!True(t[n].tests[1], st)
<1>1. c.frames = fr /\ c.store = st /\ \A d : [c EXCEPT !.frames = d] = Config(d, st, wr)
  BY ConfigFields
<1> HIDE DEF c
<1>2. [c EXCEPT !.frames = Process!Looped(t, @, n, 0)] = Config(up, st, wr)
  BY <1>1
<1> HIDE DEF up
<1>3. CASE t[n].kind = "forever"
  <2>1. Process!AtHead(t, c, n, 0) = [c EXCEPT !.frames = Process!Looped(t, @, n, 0)]
    BY <1>3 DEF Process!AtHead
  <2> QED
    BY <1>2, <1>3, <2>1 DEF c, up
<1>4. CASE t[n].kind = "while"
  <2>1. Process!True(t[n].tests[1], c.store) <=> test
    BY <1>1
  <2> HIDE DEF test
  <2>2. CASE test
    <3>1. Process!AtHead(t, c, n, 0) = [c EXCEPT !.frames = Process!Looped(t, @, n, 0)]
      BY <1>4, <2>1, <2>2 DEF Process!AtHead
    <3> QED
      BY <1>2, <1>4, <2>2, <3>1 DEF c, up, test
  <2>3. CASE ~test
    <3>1. Process!AtHead(t, c, n, 0) = c
      BY <1>4, <2>1, <2>3 DEF Process!AtHead
    <3> QED
      BY <1>4, <2>3, <3>1 DEF c, test
  <2> QED
    BY <2>2, <2>3
<1> QED
  BY <1>3, <1>4

\* A loop with no index ends a lap by coming to its head.
LEMMA LapDoneIs ==
  ASSUME NEW t, NEW c, NEW f, t[f.loop].kind # "for"
  PROVE  Process!LapDone(t, c, f) = Process!AtHead(t, c, f.loop, f.left)
BY DEF Process!LapDone

\* What each statement does to the frames, the store and the writes.
LEMMA StatementIs ==
  ASSUME NEW t, NEW fr, NEW st, NEW wr, NEW n
  PROVE  LET c == Config(fr, st, wr)
             d == t[n]
             next == Process!Onward(fr)
         IN
         /\ d.kind = "block" =>
              Process!Statement(t, n, c) = Config(Process!Pushed(t, next, n), st, wr)
         /\ d.kind = "nba" =>
              Process!Statement(t, n, c)
                = Config(next, st, Process!Scheduled(wr, d.var, Process!Truncate(d.var, d.val[st])))
         /\ d.kind \in {"induced", "temp", "decoded"} =>
              Process!Statement(t, n, c) = Config(next, Process!Assigned(st, d.var, d.val), wr)
         /\ d.kind = "if" =>
              Process!Statement(t, n, c)
                = Config(Process!Pushed(t, next, d.kids[IF Process!True(d.tests[1], st) THEN 1 ELSE 2]), st, wr)
         /\ d.kind \in {"case", "reverse"} =>
              Process!Statement(t, n, c)
                = Config(IF Process!ArmOf(d, st) = 0 THEN next
                         ELSE Process!Pushed(t, next, d.kids[Process!ArmOf(d, st)]), st, wr)
         /\ d.kind \in {"while", "forever"} =>
              Process!Statement(t, n, c) = Process!AtHead(t, Config(next, st, wr), n, 0)
         /\ d.kind = "break" => \A i \in Process!InnermostBody(fr) :
              (\A j \in Process!InnermostBody(fr) : j = i) =>
                Process!Statement(t, n, c) = Config(Above(fr, i), st, wr)
         /\ d.kind = "continue" => \A i \in Process!InnermostBody(fr) :
              (\A j \in Process!InnermostBody(fr) : j = i) =>
                Process!Statement(t, n, c) = Process!LapDone(t, Config(Above(fr, i), st, wr), fr[i])
<1> DEFINE c == Config(fr, st, wr)
           d == t[n]
           next == Process!Onward(fr)
           after == Config(next, st, wr)
<1>1. /\ c.frames = fr /\ c.store = st /\ c.writes = wr
      /\ \A e : [c EXCEPT !.frames = e] = Config(e, st, wr)
      /\ after.frames = next /\ after.store = st /\ after.writes = wr
      /\ \A e : [after EXCEPT !.frames = e] = Config(e, st, wr)
      /\ \A e : [after EXCEPT !.store = e] = Config(next, e, wr)
      /\ \A e : [after EXCEPT !.writes = e] = Config(next, st, e)
  BY ConfigFields
<1> HIDE DEF c, after
<1>2. [c EXCEPT !.frames = Process!Onward(@)] = after
  BY <1>1 DEF after
<1>3. d.kind = "block" => Process!Statement(t, n, c) = Config(Process!Pushed(t, next, n), st, wr)
  <2> SUFFICES ASSUME d.kind = "block" PROVE Process!Statement(t, n, c) = Config(Process!Pushed(t, next, n), st, wr)
    OBVIOUS
  <2>1. Process!Statement(t, n, c) = [after EXCEPT !.frames = Process!Pushed(t, @, n)]
    BY <1>2 DEF Process!Statement
  <2> QED
    BY <1>1, <2>1
<1>4. d.kind = "nba" => Process!Statement(t, n, c)
                = Config(next, st, Process!Scheduled(wr, d.var, Process!Truncate(d.var, d.val[st])))
  <2> SUFFICES ASSUME d.kind = "nba" PROVE Process!Statement(t, n, c)
                = Config(next, st, Process!Scheduled(wr, d.var, Process!Truncate(d.var, d.val[st])))
    OBVIOUS
  <2>1. Process!Statement(t, n, c)
          = [after EXCEPT !.writes = Process!Scheduled(@, d.var, Process!Truncate(d.var, d.val[c.store]))]
    BY <1>2 DEF Process!Statement
  <2> QED
    BY <1>1, <2>1
<1>5. d.kind \in {"induced", "temp", "decoded"} =>
              Process!Statement(t, n, c) = Config(next, Process!Assigned(st, d.var, d.val), wr)
  <2> SUFFICES ASSUME d.kind \in {"induced", "temp", "decoded"}
               PROVE  Process!Statement(t, n, c) = Config(next, Process!Assigned(st, d.var, d.val), wr)
    OBVIOUS
  <2>1. Process!Statement(t, n, c) = [after EXCEPT !.store = Process!Assigned(@, d.var, d.val)]
    BY <1>2 DEF Process!Statement
  <2> QED
    BY <1>1, <2>1
<1>6. d.kind = "if" =>
              Process!Statement(t, n, c)
                = Config(Process!Pushed(t, next, d.kids[IF Process!True(d.tests[1], st) THEN 1 ELSE 2]), st, wr)
  <2> SUFFICES ASSUME d.kind = "if"
               PROVE  Process!Statement(t, n, c)
                = Config(Process!Pushed(t, next, d.kids[IF Process!True(d.tests[1], st) THEN 1 ELSE 2]), st, wr)
    OBVIOUS
  <2>1. Process!Statement(t, n, c)
          = [after EXCEPT !.frames = Process!Pushed(t, @, d.kids[IF Process!True(d.tests[1], c.store) THEN 1 ELSE 2])]
    BY <1>2 DEF Process!Statement
  <2> QED
    BY <1>1, <2>1
<1>7. d.kind \in {"case", "reverse"} =>
              Process!Statement(t, n, c)
                = Config(IF Process!ArmOf(d, st) = 0 THEN next
                         ELSE Process!Pushed(t, next, d.kids[Process!ArmOf(d, st)]), st, wr)
  <2> SUFFICES ASSUME d.kind \in {"case", "reverse"}
               PROVE  Process!Statement(t, n, c)
                = Config(IF Process!ArmOf(d, st) = 0 THEN next
                         ELSE Process!Pushed(t, next, d.kids[Process!ArmOf(d, st)]), st, wr)
    OBVIOUS
  <2>1. Process!Statement(t, n, c)
          = IF Process!ArmOf(d, c.store) = 0 THEN after
            ELSE [after EXCEPT !.frames = Process!Pushed(t, @, d.kids[Process!ArmOf(d, c.store)])]
    BY <1>2 DEF Process!Statement
  <2>2. CASE Process!ArmOf(d, st) = 0
    BY <1>1, <2>1, <2>2 DEF after
  <2>3. CASE Process!ArmOf(d, st) # 0
    BY <1>1, <2>1, <2>3
  <2> QED
    BY <2>2, <2>3
<1>8. d.kind \in {"while", "forever"} => Process!Statement(t, n, c) = Process!AtHead(t, after, n, 0)
  BY <1>2 DEF Process!Statement
<1>9. ASSUME NEW i \in Process!InnermostBody(fr), \A j \in Process!InnermostBody(fr) : j = i
      PROVE  /\ d.kind = "break" => Process!Statement(t, n, c) = Config(Above(fr, i), st, wr)
             /\ d.kind = "continue" =>
                  Process!Statement(t, n, c) = Process!LapDone(t, Config(Above(fr, i), st, wr), fr[i])
  <2> DEFINE k == CHOOSE k \in Process!InnermostBody(c.frames) : TRUE
             outer == [c EXCEPT !.frames = SubSeq(@, k + 1, Len(@))]
  <2>1. Process!InnermostBody(c.frames) = Process!InnermostBody(fr) /\ Process!InnermostBody(fr) # {}
    BY <1>1, <1>9
  <2>2. k = i
    BY <1>9, <2>1
  <2>3. outer = Config(Above(fr, i), st, wr)
    BY <1>1, <2>2 DEF Above
  <2>4. c.frames[k] = fr[i]
    BY <1>1, <2>2
  <2>5. d.kind \in {"break", "continue"} =>
          Process!Statement(t, n, c) = IF d.kind = "break" THEN outer ELSE Process!LapDone(t, outer, c.frames[k])
    BY <2>1 DEF Process!Statement
  <2> HIDE DEF outer, k
  <2> QED
    BY <2>3, <2>4, <2>5
<1> QED
  BY <1>3, <1>4, <1>5, <1>6, <1>7, <1>8, <1>9 DEF c, after

\* What the process assigns at once.
AssignedAtOnce(p) ==
  {Program[p].node[n].var : n \in
     {m \in NodeId : Program[p].node[m].kind \in {"induced", "temp", "decoded"}}}

\* A label that is not substituted reads nothing the process assigns at once.
LabelsStand ==
  \A p \in Names : \A n \in NodeId :
    LET d == Program[p].node[n] IN
    d.kind = "reverse" =>
      \A k \in DOMAIN d.tests : \A v \in AssignedAtOnce(p) \cup Temps :
        ~DependsOn(SubstExpr(d.tests[k].lhs, NoEnv), v)

-----------------------------------------------------------------------------
(* Executing from a cut point *)

\* What is left to execute at cut point src, and where nothing is.
Ahead(src) ==
  IF src = Hold THEN <<>>
  ELSE IF src = Entry THEN Strip(PushFrame(<<>>, Program[name].root, NoNode))
  ELSE Strip(PushFrame(Around[name][src], nodes[src].kids[1], NoNode))

\* The configurations executing from cut point src goes through in store s.
Thread(src, s) == Process!Execution(nodes, Ahead(src), s)

\* None of them loses bits by assigning at once.
Exact(src, s) == Process!Lossless(nodes, Ahead(src), s)

\* The thread has left in store st what the environment makes of the store of
\* the edge, but for temporaries of that store that are dead.
Stored(env, st, s) ==
  /\ st \in Store
  /\ \E z \in Store : st = env[z] /\ \A v \in Vars \ Temps : z[v] = s[v]

\* The thread has assigned what the action commits.
Assigns(action, st, wr, s) ==
  /\ \A cm \in action : cm.var \notin Temps \cup Decoded
  /\ \A cm \in action : cm.induced => st[cm.var] = Truncate(cm.var, cm.val[s])
  /\ \A cm \in action : ~cm.induced => cm.var \in DOMAIN wr
  /\ \A v \in DOMAIN wr : \E cm \in action :
       ~cm.induced /\ cm.var = v /\ wr[v] = Truncate(v, cm.val[s])
  /\ \A v \in Vars : st[v] # s[v] =>
       /\ v \in AssignedAtOnce(name)
       /\ v \in Temps \cup Decoded \/ \E cm \in action : cm.var = v

\* The frames are where the leg is; at the case statement it is within.
Stands(leg, fr) ==
  IF leg.cs = NoNode THEN fr = Strip(leg.frames)
  ELSE /\ fr # <<>> /\ Head(fr).todo # <<>> /\ Head(Head(fr).todo) = leg.cs
       /\ Process!Onward(fr) = Strip(leg.frames)

\* The thread is where the leg stands, with what the leg says.
Meets(leg, c, s) ==
  /\ c = Config(c.frames, c.store, c.writes)
  /\ Stands(leg, c.frames)
  /\ Stored(leg.env, c.store, s) /\ Assigns(leg.action, c.store, c.writes, s)

\* Executing from src comes to where the leg stands.
Reaches(src, s, leg) == \E n \in Nat : Meets(leg, Thread(src, s)[n], s)

\* The thread ends its step as the transition says.
Concludes(t, c, s) ==
  /\ c = Config(c.frames, c.store, c.writes)
  /\ Process!Halted(nodes, c) /\ Process!Resumed(nodes, c) = Ahead(t.next)
  /\ c.store \in Store /\ Assigns(t.action, c.store, c.writes, s)
  /\ \A d \in Decoded : c.store[d] = t.decode[d][s]

\* Executing from src ends the step as the transition says.
Ends(src, s, t) == \E n \in Nat : Concludes(t, Thread(src, s)[n], s)

-----------------------------------------------------------------------------
(* The invariant *)

\* No arm the leg has walked past is the one to take.
PastNone(leg, s) ==
  leg.cs # NoNode => \A k \in Labels(leg.cs) : k < leg.arm => ~Holds(Match(leg, k), s)

\* The leg is the one executing from src comes to: the store takes its path, and
\* none of the arms it has already tried.
Owns(leg, src, s) == leg.from = src /\ Claims(leg, s) /\ PastNone(leg, s) /\ Reaches(src, s, leg)

\* Of the legs from src, the first that has a path for s is one the thread
\* comes to.
Follows(legs, src, s) ==
  \E k \in DOMAIN legs :
    /\ Owns(legs[k], src, s)
    /\ \A h \in DOMAIN legs : h < k /\ legs[h].from = src => ~Claims(legs[h], s)

\* The first path recorded that s satisfies is the one the thread takes.
Took(src, s) ==
  \E j \in DOMAIN out[src] :
    /\ Satisfies(s, out[src][j].guard) /\ Ends(src, s, out[src][j])
    /\ \A i \in DOMAIN out[src] : i < j => ~Satisfies(s, out[src][i].guard)

\* No recorded path out of src is one the store takes.
Untaken(src, s) == \A j \in DOMAIN out[src] : ~Satisfies(s, out[src][j].guard)

\* The path of the store is recorded, or is being walked.
Followed(src, s) == Took(src, s) \/ (Untaken(src, s) /\ Follows(stack, src, s))

\* Whatever the store at a cut point, executing from it is on a path of the walk.
PathsExecute == \A src \in walked \cup {Entry} : \A s \in Store : Exact(src, s) => Followed(src, s)

\* Nothing is recorded or walked from a wait before it is arrived at.
Begins ==
  /\ Decoded = Program[name].outputs
  /\ \A i \in DOMAIN stack : stack[i].from \in walked \cup {Entry}
  /\ \A src \in Source : src \notin walked \cup {Entry} => out[src] = <<>>

\* An environment leaves a dead temporary as it is.
DeadStays(env) ==
  \A t \in Temps : ~ReadsDead(Bound(env, t)) \/ \A s \in Store : env[s][t] = s[t]

\* A leg stands where its frames are in the tree.
LegInPlace(leg) ==
  /\ InPlace(leg.frames) /\ DeadStays(leg.env)
  /\ leg.cs # NoNode => Around[name][leg.cs] = Strip(leg.frames)

\* And so does every leg that is left to walk.
StackInPlace == \A i \in DOMAIN stack : LegInPlace(stack[i])

-----------------------------------------------------------------------------
(* What depends on the process alone *)

\* A step of the walk does not change what the process executes.
LEMMA ThreadPrime ==
  ASSUME name' = name, NEW src, NEW s
  PROVE  /\ Ahead(src)' = Ahead(src)
         /\ Thread(src, s)' = Thread(src, s)
         /\ Exact(src, s)' <=> Exact(src, s)
<1>1. nodes' = nodes
  BY DEF nodes
<1>2. Ahead(src)' = Ahead(src)
  BY <1>1 DEF Ahead, PushFrame
<1>3. Thread(src, s)' = Thread(src, s)
  BY <1>1, <1>2 DEF Thread
<1>4. Exact(src, s)' <=> Exact(src, s)
  BY <1>1, <1>2 DEF Exact
<1> QED
  BY <1>2, <1>3, <1>4

\* Nor what it is to have assigned a commit,
LEMMA AssignsPrime ==
  ASSUME name' = name, proc' = proc, NEW action, NEW st, NEW wr, NEW s
  PROVE  Assigns(action, st, wr, s)' <=> Assigns(action, st, wr, s)
BY DEF Assigns, Decoded

\* nor to have come to a leg,
LEMMA MeetsPrime ==
  ASSUME name' = name, proc' = proc, NEW leg, NEW c, NEW s
  PROVE  Meets(leg, c, s)' <=> Meets(leg, c, s)
BY AssignsPrime DEF Meets

\* nor which leg the store takes,
LEMMA OwnsPrime ==
  ASSUME name' = name, proc' = proc, NEW leg, NEW src, NEW s
  PROVE  (Claims(leg, s)' <=> Claims(leg, s)) /\ (Owns(leg, src, s)' <=> Owns(leg, src, s))
<1>1. Claims(leg, s)' <=> Claims(leg, s)
  BY DEF Claims, Labels, Match, nodes
<1>2. PastNone(leg, s)' <=> PastNone(leg, s)
  BY DEF PastNone, Labels, Match, nodes
<1>3. Reaches(src, s, leg)' <=> Reaches(src, s, leg)
  BY ThreadPrime, MeetsPrime DEF Reaches
<1> QED
  BY <1>1, <1>2, <1>3 DEF Owns

\* nor which of a list of legs is the first it takes,
LEMMA FollowsPrime ==
  ASSUME name' = name, proc' = proc, NEW legs, NEW src, NEW s
  PROVE  Follows(legs, src, s)' <=> Follows(legs, src, s)
BY OwnsPrime DEF Follows

\* nor to end as a transition says.
LEMMA EndsPrime ==
  ASSUME name' = name, proc' = proc, NEW src, NEW s, NEW t
  PROVE  Ends(src, s, t)' <=> Ends(src, s, t)
<1>1. nodes' = nodes /\ Decoded' = Decoded /\ Ahead(t.next)' = Ahead(t.next)
  BY ThreadPrime DEF nodes, Decoded
<1>2. ASSUME NEW c PROVE Concludes(t, c, s)' <=> Concludes(t, c, s)
  <2>1. Assigns(t.action, c.store, c.writes, s)' <=> Assigns(t.action, c.store, c.writes, s)
    BY AssignsPrime
  <2> QED
    BY <1>1, <2>1 DEF Concludes
<1> QED
  BY <1>2, ThreadPrime DEF Ends

\* No leg from src has a path for s.
Silent(legs, src, s) == \A i \in DOMAIN legs : legs[i].from = src => ~Claims(legs[i], s)

\* The legs of a first group come first.
LEMMA ConcatFollows ==
  ASSUME NEW a \in Seq(PathLeg), NEW b \in Seq(PathLeg), NEW src, NEW s
  PROVE  /\ Follows(a, src, s) => Follows(a \o b, src, s)
         /\ Silent(a, src, s) /\ Follows(b, src, s) => Follows(a \o b, src, s)
         /\ Silent(a, src, s) /\ Silent(b, src, s) => Silent(a \o b, src, s)
<1>1. /\ a \o b \in Seq(PathLeg) /\ Len(a \o b) = Len(a) + Len(b)
      /\ \A i \in 1 .. Len(a) + Len(b) :
           (a \o b)[i] = IF i <= Len(a) THEN a[i] ELSE b[i - Len(a)]
  BY ConcatProperties
<1>2. /\ DOMAIN (a \o b) = 1 .. Len(a) + Len(b) /\ DOMAIN a = 1 .. Len(a)
      /\ DOMAIN b = 1 .. Len(b) /\ Len(a) \in Nat /\ Len(b) \in Nat
  BY <1>1, LenProperties
<1> DEFINE all == a \o b
<1>3. /\ DOMAIN all = 1 .. Len(a) + Len(b)
      /\ \A i \in DOMAIN a : i \in DOMAIN all /\ all[i] = a[i]
      /\ \A i \in DOMAIN b : Len(a) + i \in DOMAIN all /\ all[Len(a) + i] = b[i]
      /\ \A i \in DOMAIN all : i \in DOMAIN a \/ (i - Len(a) \in DOMAIN b /\ all[i] = b[i - Len(a)])
  BY <1>1, <1>2
<1> HIDE DEF all
<1>4. ASSUME Follows(a, src, s) PROVE Follows(all, src, s)
  <2>1. PICK k \in DOMAIN a : /\ Owns(a[k], src, s)
                              /\ \A h \in DOMAIN a : h < k /\ a[h].from = src => ~Claims(a[h], s)
    BY <1>4 DEF Follows
  <2>2. \A h \in DOMAIN all : h < k => h \in DOMAIN a
    BY <1>2, <1>3
  <2> QED
    BY <1>3, <2>1, <2>2 DEF Follows
<1>5. ASSUME Silent(a, src, s), Follows(b, src, s) PROVE Follows(all, src, s)
  <2>1. PICK k \in DOMAIN b : /\ Owns(b[k], src, s)
                              /\ \A h \in DOMAIN b : h < k /\ b[h].from = src => ~Claims(b[h], s)
    BY <1>5 DEF Follows
  <2>2. Len(a) + k \in DOMAIN all /\ all[Len(a) + k] = b[k]
    BY <1>3
  <2>3. ASSUME NEW h \in DOMAIN all, h < Len(a) + k, all[h].from = src PROVE ~Claims(all[h], s)
    <3>1. CASE h \in DOMAIN a
      BY <1>3, <1>5, <2>3, <3>1 DEF Silent
    <3>2. CASE h \notin DOMAIN a
      <4>1. h - Len(a) \in DOMAIN b /\ all[h] = b[h - Len(a)] /\ h - Len(a) < k
        BY <1>2, <1>3, <2>3, <3>2
      <4> QED
        BY <2>1, <2>3, <4>1
    <3> QED
      BY <3>1, <3>2
  <2> QED
    BY <2>1, <2>2, <2>3 DEF Follows
<1>6. ASSUME Silent(a, src, s), Silent(b, src, s) PROVE Silent(all, src, s)
  BY <1>3, <1>6 DEF Silent
<1> QED
  BY <1>4, <1>5, <1>6 DEF all

\* The leg replaced is the first; what it had the new ones have.
LEMMA ReplaceFollows ==
  ASSUME TypeOK, Walking, NEW legs \in Seq(PathLeg), NEW src, NEW s,
         Follows(stack, src, s),
         top.from = src /\ Owns(top, src, s) => Follows(legs, src, s),
         ~(top.from = src /\ Claims(top, s)) => Silent(legs, src, s)
  PROVE  Follows(legs \o Tail(stack), src, s)
<1>1. PICK k \in DOMAIN stack :
        /\ Owns(stack[k], src, s)
        /\ \A h \in DOMAIN stack : h < k /\ stack[h].from = src => ~Claims(stack[h], s)
  BY DEF Follows
<1>2. /\ Tail(stack) \in Seq(PathLeg) /\ top = stack[1]
      /\ \A i \in DOMAIN stack : i # 1 => i - 1 \in DOMAIN Tail(stack) /\ Tail(stack)[i - 1] = stack[i]
  BY TopFacts
<1>3. stack \in Seq(PathLeg) /\ stack # <<>>
  BY DEF TypeOK, Walking
<1>4. /\ DOMAIN stack = 1 .. Len(stack) /\ Len(stack) \in Nat /\ 1 \in DOMAIN stack
      /\ DOMAIN Tail(stack) = 1 .. Len(stack) - 1
      /\ \A i \in 1 .. Len(stack) - 1 : Tail(stack)[i] = stack[i + 1]
  BY <1>2, <1>3, EmptySeq, LenProperties, HeadTailProperties
<1>5. CASE k = 1
  BY <1>1, <1>2, <1>5, ConcatFollows DEF Owns
<1>6. CASE k # 1
  <2>1. ~(top.from = src /\ Claims(top, s))
    <3>1. 1 < k
      BY <1>4, <1>6
    <3> QED
      BY <1>1, <1>2, <1>4, <3>1
  <2>2. k - 1 \in DOMAIN Tail(stack) /\ Tail(stack)[k - 1] = stack[k]
    BY <1>2, <1>6
  <2>3. ASSUME NEW h \in DOMAIN Tail(stack), h < k - 1, Tail(stack)[h].from = src
        PROVE  ~Claims(Tail(stack)[h], s)
    <3>1. h + 1 \in DOMAIN stack /\ h + 1 < k /\ Tail(stack)[h] = stack[h + 1]
      BY <1>4, <2>3
    <3> QED
      BY <1>1, <2>3, <3>1
  <2>4. Follows(Tail(stack), src, s)
    BY <1>1, <2>2, <2>3 DEF Follows
  <2> QED
    BY <1>2, <2>1, <2>4, ConcatFollows
<1> QED
  BY <1>5, <1>6

\* What follows the store after a step is what the new stack says.
LEMMA StackFollowsPrime ==
  ASSUME name' = name, proc' = proc, NEW src, NEW s
  PROVE  Follows(stack, src, s)' <=> Follows(stack', src, s)
<1>1. ASSUME NEW leg PROVE (Claims(leg, s)' <=> Claims(leg, s)) /\ (Owns(leg, src, s)' <=> Owns(leg, src, s))
  BY OwnsPrime
<1> QED
  BY <1>1 DEF Follows

\* A step that records nothing keeps every path, if the legs it goes on with
\* follow the thread where the current one did.
LEMMA KeepsPaths ==
  ASSUME TypeOK, PathsExecute, Walking, NEW legs \in Seq(PathLeg), Replace(legs),
         UNCHANGED <<name, proc, out, walked>>,
         \A i \in DOMAIN legs : legs[i].from = top.from,
         \A s \in Store : Claims(top, s) \/ Silent(legs, top.from, s),
         \A s \in Store : Exact(top.from, s) /\ Owns(top, top.from, s) => Follows(legs, top.from, s)
  PROVE  PathsExecute'
<1>1. SUFFICES ASSUME NEW src \in walked \cup {Entry}, NEW s \in Store, Exact(src, s)'
               PROVE  Followed(src, s)'
  BY DEF PathsExecute
<1>2. Exact(src, s) /\ Followed(src, s)
  BY <1>1, ThreadPrime DEF PathsExecute
<1>3. CASE Took(src, s)
  <2>1. PICK j \in DOMAIN out[src] :
          /\ Satisfies(s, out[src][j].guard) /\ Ends(src, s, out[src][j])
          /\ \A i \in DOMAIN out[src] : i < j => ~Satisfies(s, out[src][i].guard)
    BY <1>3 DEF Took
  <2>2. ASSUME NEW t PROVE Ends(src, s, t)' <=> Ends(src, s, t)
    BY EndsPrime
  <2>3. Took(src, s)'
    BY <2>1, <2>2 DEF Took
  <2> QED
    BY <2>3 DEF Followed
<1>4. CASE Untaken(src, s) /\ Follows(stack, src, s)
  <2>1. Silent(legs, src, s) \/ (top.from = src /\ Claims(top, s))
    BY DEF Silent
  <2>2. top.from = src /\ Owns(top, src, s) => Follows(legs, src, s)
    BY <1>2
  <2>3. Follows(stack', src, s)
    BY <1>4, <2>1, <2>2, ReplaceFollows DEF Replace
  <2>4. Follows(stack, src, s)'
    BY <2>3, StackFollowsPrime
  <2>5. Untaken(src, s)'
    BY <1>4 DEF Untaken
  <2> QED
    BY <2>4, <2>5 DEF Followed
<1> QED
  BY <1>2, <1>3, <1>4 DEF Followed

\* One leg alone.
LEMMA OneFollows ==
  ASSUME NEW leg, NEW src, NEW s
  PROVE  /\ Owns(leg, src, s) => Follows(<<leg>>, src, s)
         /\ ~Claims(leg, s) => Silent(<<leg>>, src, s)
<1>1. DOMAIN <<leg>> = {1} /\ <<leg>>[1] = leg
  BY OneSeq
<1> QED
  BY <1>1 DEF Follows, Silent

\* A side of a fork the store takes is live; one it does not take is silent.
LEMMA LiveFollows ==
  ASSUME NEW leg \in PathLeg, NEW extra \in SUBSET Literal, NEW src, NEW s
  PROVE  /\ /\ leg.from = src /\ leg.cs = NoNode
            /\ Satisfies(s, leg.guard) /\ Satisfies(s, extra) /\ Reaches(src, s, leg)
            => Follows(Live(leg, extra), src, s)
         /\ ~(Satisfies(s, leg.guard) /\ Satisfies(s, extra)) => Silent(Live(leg, extra), src, s)
         /\ \A i \in DOMAIN Live(leg, extra) : Live(leg, extra)[i].from = leg.from
<1> DEFINE new == [leg EXCEPT !.guard = @ \cup extra]
<1>1. leg.guard \in SUBSET Literal
  BY DEF PathLeg, Leg
<1>2. /\ new.guard = leg.guard \cup extra /\ new.from = leg.from /\ new.cs = leg.cs
      /\ new.frames = leg.frames /\ new.env = leg.env /\ new.action = leg.action
  BY DEF PathLeg, Leg
<1>3. Live(leg, extra) = IF Contradicts(leg.guard, extra) THEN <<>> ELSE <<new>>
  BY DEF Live
<1> HIDE DEF new
<1>4. ASSUME leg.from = src, leg.cs = NoNode, Satisfies(s, leg.guard), Satisfies(s, extra),
             Reaches(src, s, leg)
      PROVE  Follows(Live(leg, extra), src, s)
  <2>1. Live(leg, extra) = <<new>>
    BY <1>1, <1>3, <1>4, ContradictsExclude
  <2>2. Claims(new, s) /\ PastNone(new, s)
    BY <1>2, <1>4, SatisfiesUnion DEF Claims, PastNone
  <2>3. \A c : Meets(leg, c, s) => Meets(new, c, s)
    BY <1>2 DEF Meets, Stands
  <2>4. Owns(new, src, s)
    BY <1>2, <1>4, <2>2, <2>3 DEF Owns, Reaches
  <2> QED
    BY <2>1, <2>4, OneFollows
<1>5. ASSUME ~(Satisfies(s, leg.guard) /\ Satisfies(s, extra)) PROVE Silent(Live(leg, extra), src, s)
  <2>1. ~Claims(new, s)
    BY <1>2, <1>5 DEF Claims, Satisfies
  <2>2. CASE Contradicts(leg.guard, extra)
    BY <1>3, <2>2 DEF Silent
  <2>3. CASE ~Contradicts(leg.guard, extra)
    BY <1>3, <2>1, <2>3, OneFollows
  <2> QED
    BY <2>2, <2>3
<1>6. \A i \in DOMAIN Live(leg, extra) : Live(leg, extra)[i].from = leg.from
  <2>1. DOMAIN <<new>> = {1} /\ <<new>>[1] = new
    BY OneSeq
  <2> QED
    BY <1>2, <1>3, <2>1
<1> QED
  BY <1>4, <1>5, <1>6

\* Both modules give a value the width of its signal by the same truncation.
LEMMA SameTruncate ==
  ASSUME NEW v, NEW k
  PROVE  Process!Truncate(v, k) = Truncate(v, k)
BY DEF Process!Truncate, Truncate

\* What an assignment leaves is a store of registers.
LEMMA AssignedType ==
  ASSUME NEW st \in Store, NEW v \in Vars, NEW e \in Expr
  PROVE  /\ Process!Assigned(st, v, e) = [st EXCEPT ![v] = Truncate(v, e[st])]
         /\ Process!Assigned(st, v, e) \in Store
         /\ Process!Assigned(st, v, e)[v] = Truncate(v, e[st])
         /\ \A u \in Vars : u # v => Process!Assigned(st, v, e)[u] = st[u]
<1>1. e[st] \in Wide
  BY StoreIsWide DEF Expr
<1>2. Truncate(v, e[st]) \in 0 .. Modulus[v] - 1
  <2>1. Truncate(v, e[st]) \in Wide /\ Truncate(v, e[st]) < Modulus[v] /\ Modulus[v] \in 1 .. WideModulus
        /\ WideModulus \in Nat
    BY <1>1, TruncateType, ExprAssumption
  <2> QED
    BY <2>1 DEF Wide
<1> DEFINE k == Truncate(v, e[st])
<1>3. Process!Assigned(st, v, e) = [st EXCEPT ![v] = k]
  BY SameTruncate DEF Process!Assigned
<1>4. [st EXCEPT ![v] = k] \in Store
  BY <1>2, OneChanged
<1> HIDE DEF k
<1>5. DOMAIN st = Vars
  BY DEF Store, WideStore
<1>6. [st EXCEPT ![v] = k][v] = k /\ \A u \in Vars : u # v => [st EXCEPT ![v] = k][u] = st[u]
  BY <1>5
<1> QED
  BY <1>3, <1>4, <1>6 DEF k

\* A value in width is kept whole.
LEMMA TruncateFits ==
  ASSUME NEW v \in Vars, NEW k \in Wide, k < Modulus[v]
  PROVE  Truncate(v, k) = k
<1>1. Modulus[v] \in Nat /\ Modulus[v] > 0 /\ k \in Nat
  BY ExprAssumption DEF Wide
<1>2. ASSUME NEW m \in Nat, m > 0, NEW j \in Nat, j < m PROVE j % m = j
  BY <1>2
<1> QED
  BY <1>1, <1>2 DEF Truncate

\* A store and what it was, but for temporaries that are dead.
LEMMA ReadsSame ==
  ASSUME NEW x, ~ReadsDead(x), NEW s \in Store, NEW z \in Store, \A v \in Vars \ Temps : z[v] = s[v]
  PROVE  x[s] = x[z]
<1>1. Difference(s, z) \subseteq Temps
  BY DEF Difference
<1>2. \A v \in Temps : ~DependsOn(x, v)
  BY DEF ReadsDead
<1> QED
  BY <1>1, <1>2, ReadsNone

\* What a leg substitutes is what the thread computes.
LEMMA Reads ==
  ASSUME NEW env, NEW st, NEW s \in Store, Stored(env, st, s), NEW e, ~ReadsDead(SubstExpr(e, env))
  PROVE  SubstExpr(e, env)[s] = e[st]
<1>1. PICK z \in Store : st = env[z] /\ \A v \in Vars \ Temps : z[v] = s[v]
  BY DEF Stored
<1>2. SubstExpr(e, env)[z] = e[st]
  BY <1>1 DEF SubstExpr
<1> QED
  BY <1>1, <1>2, ReadsSame

\* A test substituted through the environment holds of the store of the edge
\* when the process finds it true where the leg stands.
LEMMA ReadsTest ==
  ASSUME NEW env, NEW st, NEW s \in Store, Stored(env, st, s), NEW t,
         ~ReadsDead(SubstTest(t, env).lhs)
  PROVE  Holds(SubstTest(t, env), s) <=> Process!True(t, st)
<1>1. SubstTest(t, env).lhs = SubstExpr(t.lhs, env) /\ SubstTest(t, env).rhs = t.rhs /\ SubstTest(t, env).eq = t.eq
  BY DEF SubstTest
<1>2. SubstExpr(t.lhs, env)[s] = t.lhs[st]
  BY <1>1, Reads
<1> QED
  BY <1>1, <1>2 DEF Holds, Process!True

\* And a name has the value the environment binds it to.
LEMMA ReadsBound ==
  ASSUME NEW env, NEW st, NEW s \in Store, Stored(env, st, s), NEW v, ~ReadsDead(Bound(env, v))
  PROVE  env[s][v] = st[v]
<1>1. PICK z \in Store : st = env[z] /\ \A u \in Vars \ Temps : z[u] = s[u]
  BY DEF Stored
<1>2. Bound(env, v)[s] = env[s][v] /\ Bound(env, v)[z] = st[v]
  BY <1>1 DEF Bound
<1> QED
  BY <1>1, <1>2, ReadsSame

\* A temporary the environment drops keeps the value that the thread holds.
LEMMA ForgetStored ==
  ASSUME NEW env \in Env, CleanEnv(env), DeadStays(env), NEW D \in SUBSET Temps,
         NEW st, NEW s \in Store, Stored(env, st, s)
  PROVE  Stored(Forget(env, D), st, s)
<1>1. PICK z \in Store : st = env[z] /\ \A v \in Vars \ Temps : z[v] = s[v]
  BY DEF Stored
<1>2. st \in Store
  BY DEF Stored
<1> DEFINE y == [v \in Vars |-> IF v \in D THEN st[v] ELSE z[v]]
<1>3. y \in Store
  BY <1>2 DEF Store, WideStore
<1>4. \A v \in Vars : y[v] = IF v \in D THEN st[v] ELSE z[v]
  OBVIOUS
<1> HIDE DEF y
<1>5. Temps \subseteq Vars
  BY ProgramAssumption
<1>6. \A v \in Vars \ Temps : y[v] = z[v] /\ y[v] = s[v]
  BY <1>1, <1>4
<1>7. ASSUME NEW v \in Vars, v \notin D PROVE env[y][v] = st[v]
  <2>1. ~ReadsDead(Bound(env, v)) => env[y][v] = env[z][v]
    <3> SUFFICES ASSUME ~ReadsDead(Bound(env, v)) PROVE env[y][v] = env[z][v]
      OBVIOUS
    <3>1. Bound(env, v)[y] = Bound(env, v)[z]
      BY <1>3, <1>6, ReadsSame
    <3> QED
      BY <1>3, <3>1 DEF Bound
  <2>2. CASE ~ReadsDead(Bound(env, v))
    BY <1>1, <2>1, <2>2
  <2>3. CASE ReadsDead(Bound(env, v))
    <3>1. v \in Temps
      BY <2>3 DEF CleanEnv
    <3>2. env[y][v] = y[v] /\ env[z][v] = z[v]
      BY <1>3, <2>3, <3>1 DEF DeadStays
    <3> QED
      BY <1>1, <1>4, <1>7, <3>2
  <2> QED
    BY <2>2, <2>3
<1>8. Forget(env, D)[y] = [v \in Vars |-> IF v \in D THEN y[v] ELSE env[y][v]]
  BY <1>3 DEF Forget
<1>9. \A v \in Vars : (IF v \in D THEN y[v] ELSE env[y][v]) = st[v]
  BY <1>4, <1>7
<1>10. Forget(env, D)[y] = [v \in Vars |-> st[v]]
  BY <1>8, <1>9
<1>11. st = [v \in Vars |-> st[v]]
  BY <1>2 DEF Store, WideStore
<1> QED
  BY <1>2, <1>3, <1>6, <1>10, <1>11 DEF Stored

\* Leaving a scope keeps the dead temporaries as they are.
LEMMA ForgetDead ==
  ASSUME NEW env \in Env, DeadStays(env), NEW D
  PROVE  DeadStays(Forget(env, D))
<1>1. Temps \subseteq Vars
  BY ProgramAssumption
<1>2. \A s \in Store : \A v \in Vars : Forget(env, D)[s][v] = IF v \in D THEN s[v] ELSE env[s][v]
  BY DEF Forget
<1>3. ASSUME NEW t \in Temps, t \notin D PROVE Bound(Forget(env, D), t) = Bound(env, t)
  BY <1>1, <1>2, <1>3 DEF Bound
<1> QED
  BY <1>1, <1>2, <1>3 DEF DeadStays

\* The environment of a cut point binds nothing.
LEMMA NoEnvDead == DeadStays(NoEnv)
BY DEF DeadStays, NoEnv

\* Binding a name to a value that reads no dead temporary keeps them so.
LEMMA BindDead ==
  ASSUME NEW env \in Env, DeadStays(env), NEW v \in Vars, NEW x \in Value, ~ReadsDead(x)
  PROVE  DeadStays(Bind(env, v, x))
<1>1. Temps \subseteq Vars
  BY ProgramAssumption
<1>2. \A s \in Store : env[s] \in [Vars -> Wide]
  BY DEF Env, WideStore
<1>3. \A s \in Store : \A u \in Vars : Bind(env, v, x)[s][u] = IF u = v THEN x[s] ELSE env[s][u]
  BY <1>2 DEF Bind
<1>4. ASSUME NEW t \in Temps, t # v PROVE Bound(Bind(env, v, x), t) = Bound(env, t)
  BY <1>1, <1>3, <1>4 DEF Bound
<1>5. Bound(Bind(env, v, x), v) = x
  <2>1. x = [s \in Store |-> x[s]]
    BY DEF Value
  <2> QED
    BY <1>3, <2>1 DEF Bound
<1>6. ASSUME NEW t \in Temps
      PROVE  ~ReadsDead(Bound(Bind(env, v, x), t)) \/ \A s \in Store : Bind(env, v, x)[s][t] = s[t]
  <2>1. CASE t = v
    BY <1>5, <2>1
  <2>2. CASE t # v
    BY <1>1, <1>3, <1>4, <2>2 DEF DeadStays
  <2> QED
    BY <2>1, <2>2
<1> QED
  BY <1>6 DEF DeadStays

\* The environment binds what the thread assigns.
LEMMA BindStored ==
  ASSUME NEW env \in Env, NEW st, NEW s \in Store, Stored(env, st, s),
         NEW v \in Vars, NEW x \in Value, ~ReadsDead(x), [st EXCEPT ![v] = x[s]] \in Store
  PROVE  Stored(Bind(env, v, x), [st EXCEPT ![v] = x[s]], s)
<1>1. PICK z \in Store : st = env[z] /\ \A u \in Vars \ Temps : z[u] = s[u]
  BY DEF Stored
<1>2. x[s] = x[z]
  BY <1>1, ReadsSame
<1>3. Bind(env, v, x)[z] = [st EXCEPT ![v] = x[s]]
  BY <1>1, <1>2 DEF Bind
<1> QED
  BY <1>1, <1>3 DEF Stored

\* A step starts with nothing assigned.
LEMMA StartStored ==
  ASSUME NEW s \in Store
  PROVE  Stored(NoEnv, s, s) /\ Assigns({}, s, <<>>, s)
<1>1. Stored(NoEnv, s, s)
  BY DEF Stored, NoEnv
<1>2. DOMAIN <<>> = {}
  OBVIOUS
<1>3. Assigns({}, s, <<>>, s)
  BY <1>2 DEF Assigns
<1> QED
  BY <1>1, <1>3

\* What a step of the walk keeps, beside the types and what the path cover
\* reads.
Executing == Begins /\ StackInPlace /\ PathsExecute

\* The thread takes one statement to where the next leg is.
LEMMA ReachStep ==
  ASSUME NEW src, NEW s, NEW leg, NEW next, Reaches(src, s, leg),
         \A n \in Nat : Meets(leg, Thread(src, s)[n], s)
                          => Meets(next, Process!Advance(nodes, Thread(src, s)[n]), s)
  PROVE  Reaches(src, s, next)
<1>1. PICK n \in Nat : Meets(leg, Thread(src, s)[n], s)
  BY DEF Reaches
<1>2. Thread(src, s)[n + 1] = Process!Advance(nodes, Thread(src, s)[n])
  BY ExecutionUnfolds DEF Thread
<1>3. n + 1 \in Nat
  OBVIOUS
<1> QED
  BY <1>1, <1>2, <1>3 DEF Reaches

\* The legs in place of the current one are in place, and so is the stack.
LEMMA ReplaceInPlace ==
  ASSUME TypeOK, StackInPlace, Walking, NEW legs \in Seq(PathLeg), Replace(legs), name' = name,
         \A i \in DOMAIN legs : LegInPlace(legs[i])
  PROVE  StackInPlace'
<1>1. Tail(stack) \in Seq(PathLeg)
  BY TopFacts
<1>2. /\ legs \o Tail(stack) \in Seq(PathLeg)
      /\ Len(legs \o Tail(stack)) = Len(legs) + Len(Tail(stack))
      /\ \A i \in 1 .. Len(legs) + Len(Tail(stack)) :
           (legs \o Tail(stack))[i] = IF i <= Len(legs) THEN legs[i] ELSE Tail(stack)[i - Len(legs)]
  BY <1>1, ConcatProperties
<1>3. /\ DOMAIN (legs \o Tail(stack)) = 1 .. Len(legs) + Len(Tail(stack))
      /\ DOMAIN legs = 1 .. Len(legs) /\ DOMAIN Tail(stack) = 1 .. Len(Tail(stack))
      /\ Len(legs) \in Nat /\ Len(Tail(stack)) \in Nat
  BY <1>1, <1>2, LenProperties
<1>4. ASSUME NEW i \in DOMAIN Tail(stack) PROVE LegInPlace(Tail(stack)[i])
  <2>1. stack \in Seq(PathLeg) /\ stack # <<>>
    BY DEF TypeOK, Walking
  <2>2. i + 1 \in DOMAIN stack /\ Tail(stack)[i] = stack[i + 1]
    BY <1>4, <2>1, EmptySeq, LenProperties, HeadTailProperties
  <2> QED
    BY <2>2 DEF StackInPlace
<1>5. \A i \in DOMAIN (legs \o Tail(stack)) : LegInPlace((legs \o Tail(stack))[i])
  BY <1>2, <1>3, <1>4
<1>6. nodes' = nodes
  BY DEF nodes
<1>7. ASSUME NEW leg PROVE LegInPlace(leg)' <=> LegInPlace(leg)
  BY <1>6 DEF LegInPlace, InPlace, FrameInPlace
<1>8. stack' = legs \o Tail(stack)
  BY DEF Replace
<1> HIDE DEF Replace
<1>9. \A i \in DOMAIN stack' : LegInPlace(stack'[i])
  BY <1>5, <1>8
<1> QED
  BY <1>7, <1>9 DEF StackInPlace

\* Legs from the source of the current one leave every leg with its source.
LEMMA ReplaceBegins ==
  ASSUME TypeOK, Begins, Walking, NEW legs \in Seq(PathLeg), Replace(legs),
         UNCHANGED <<name, proc, out, walked>>,
         \A i \in DOMAIN legs : legs[i].from = top.from
  PROVE  Begins'
<1>1. Tail(stack) \in Seq(PathLeg) /\ top = stack[1]
  BY TopFacts
<1>2. /\ Len(legs \o Tail(stack)) = Len(legs) + Len(Tail(stack))
      /\ legs \o Tail(stack) \in Seq(PathLeg)
      /\ \A i \in 1 .. Len(legs) + Len(Tail(stack)) :
           (legs \o Tail(stack))[i] = IF i <= Len(legs) THEN legs[i] ELSE Tail(stack)[i - Len(legs)]
  BY <1>1, ConcatProperties
<1>3. /\ DOMAIN (legs \o Tail(stack)) = 1 .. Len(legs) + Len(Tail(stack))
      /\ DOMAIN legs = 1 .. Len(legs) /\ DOMAIN Tail(stack) = 1 .. Len(Tail(stack))
      /\ Len(legs) \in Nat /\ Len(Tail(stack)) \in Nat
  BY <1>1, <1>2, LenProperties
<1>4. stack \in Seq(PathLeg) /\ stack # <<>>
  BY DEF TypeOK, Walking
<1>5. \A i \in DOMAIN Tail(stack) : i + 1 \in DOMAIN stack /\ Tail(stack)[i] = stack[i + 1]
  BY <1>4, EmptySeq, LenProperties, HeadTailProperties
<1>6. 1 \in DOMAIN stack
  BY <1>4, EmptySeq, LenProperties
<1>7. \A i \in DOMAIN (legs \o Tail(stack)) : (legs \o Tail(stack))[i].from \in walked \cup {Entry}
  BY <1>1, <1>2, <1>3, <1>5, <1>6 DEF Begins
<1>8. Source' = Source /\ Decoded' = Decoded
  BY SameProcess DEF Decoded
<1> QED
  BY <1>7, <1>8 DEF Begins, Replace

\* A step that records nothing and goes on with legs in place, which follow the
\* thread where the current one did.
LEMMA KeepsExecuting ==
  ASSUME TypeOK, Executing, Walking, NEW legs \in Seq(PathLeg), Replace(legs),
         UNCHANGED <<name, proc, out, walked>>,
         \A i \in DOMAIN legs : legs[i].from = top.from /\ LegInPlace(legs[i]),
         \A s \in Store : Claims(top, s) \/ Silent(legs, top.from, s),
         \A s \in Store : Exact(top.from, s) /\ Owns(top, top.from, s) => Follows(legs, top.from, s)
  PROVE  Executing'
<1>1. PathsExecute'
  BY KeepsPaths DEF Executing
<1>2. StackInPlace'
  BY ReplaceInPlace DEF Executing
<1>3. Begins'
  BY ReplaceBegins DEF Executing
<1> QED
  BY <1>1, <1>2, <1>3 DEF Executing

\* A step to one leg, by which the thread takes one statement.
LEMMA StepExecutes ==
  ASSUME TypeOK, Executing, Walking, top.cs = NoNode, NEW leg \in PathLeg, Replace(<<leg>>),
         UNCHANGED <<name, proc, out, walked>>,
         leg.from = top.from, leg.guard = top.guard, leg.cs = NoNode, LegInPlace(leg),
         \A s \in Store : \A c :
           Meets(top, c, s) /\ ~Process!Loses(nodes, c) => Meets(leg, Process!Advance(nodes, c), s)
  PROVE  Executing'
<1>1. <<leg>> \in Seq(PathLeg) /\ DOMAIN <<leg>> = {1} /\ <<leg>>[1] = leg
  BY OneSeq
<1>2. ASSUME NEW s \in Store PROVE Claims(leg, s) <=> Claims(top, s)
  BY DEF Claims
<1>3. \A s \in Store : Claims(top, s) \/ Silent(<<leg>>, top.from, s)
  BY <1>2, OneFollows
<1>4. ASSUME NEW s \in Store, Exact(top.from, s), Owns(top, top.from, s)
      PROVE  Follows(<<leg>>, top.from, s)
  <2>1. Reaches(top.from, s, top)
    BY <1>4 DEF Owns
  <2>2. \A n \in Nat : ~Process!Loses(nodes, Thread(top.from, s)[n])
    BY <1>4 DEF Exact, Process!Lossless, Thread
  <2>3. Reaches(top.from, s, leg)
    BY <2>1, <2>2, ReachStep
  <2>4. Owns(leg, top.from, s)
    BY <1>2, <1>4, <2>3 DEF Owns, PastNone
  <2> QED
    BY <2>4, OneFollows
<1> QED
  BY <1>1, <1>3, <1>4, KeepsExecuting

\* To come to a leg is a matter of the frames, the store and the writes.
LEMMA MeetsIs ==
  ASSUME NEW leg, NEW fr, NEW st, NEW wr, NEW s
  PROVE  Meets(leg, Config(fr, st, wr), s)
           <=> Stands(leg, fr) /\ Stored(leg.env, st, s) /\ Assigns(leg.action, st, wr, s)
BY ConfigFields DEF Meets

\* The current leg is in place and its environment reads no temporary.
LEMMA TopInPlace ==
  ASSUME NothingDead, Executing, Walking
  PROVE  /\ TypeOK /\ top \in PathLeg /\ top.frames \in Seq(Frame) /\ top.env \in Env
         /\ LegInPlace(top) /\ InPlace(top.frames) /\ DeadStays(top.env)
         /\ CleanLeg(top) /\ CleanEnv(top.env)
<1>1. TypeOK /\ CleanStack /\ stack \in Seq(PathLeg) /\ stack # <<>>
  BY DEF NothingDead, TypeOK, Walking
<1>2. top \in PathLeg /\ CleanLeg(top) /\ top = stack[1]
  BY <1>1, TopClean, TopFacts
<1>3. 1 \in DOMAIN stack
  BY <1>1, EmptySeq, LenProperties
<1>4. LegInPlace(top)
  BY <1>2, <1>3 DEF Executing, StackInPlace
<1>5. top.frames \in Seq(Frame) /\ top.env \in Env
  BY <1>2 DEF PathLeg, Leg
<1> QED
  BY <1>1, <1>2, <1>4, <1>5 DEF LegInPlace, CleanLeg

\* The current leg past the end of its frame, in place.
LEMMA PastFrame ==
  ASSUME NothingDead, Executing, InFrame,
         NEW leg, leg = [top EXCEPT !.env = Forget(@, frame.decls), !.frames = Tail(@)]
  PROVE  /\ leg \in PathLeg /\ leg.from = top.from /\ leg.guard = top.guard /\ leg.cs = NoNode
         /\ leg.action = top.action /\ leg.env = Forget(top.env, frame.decls)
         /\ leg.frames = Tail(top.frames) /\ leg.lapped = top.lapped
         /\ LegInPlace(leg) /\ CleanEnv(leg.env)
         /\ \A st : \A s \in Store : Stored(top.env, st, s) => Stored(leg.env, st, s)
         /\ frame.loop # NoNode => Around[name][frame.loop] = Strip(leg.frames)
<1>1. Walking /\ top.cs = NoNode /\ top.frames # <<>>
  BY DEF InFrame, InLeg
<1>2. /\ TypeOK /\ top \in PathLeg /\ top.frames \in Seq(Frame) /\ top.env \in Env
      /\ InPlace(top.frames) /\ DeadStays(top.env) /\ CleanEnv(top.env)
  BY <1>1, TopInPlace
<1>3. frame \in Frame /\ Tail(top.frames) \in Seq(Frame)
  BY <1>2, FrameFacts
<1>4. /\ leg.from = top.from /\ leg.guard = top.guard /\ leg.cs = NoNode
      /\ leg.action = top.action /\ leg.env = Forget(top.env, frame.decls)
      /\ leg.frames = Tail(top.frames) /\ leg.lapped = top.lapped
  BY <1>1, <1>2 DEF PathLeg, Leg
<1>5. leg \in PathLeg
  <2>1. Forget(top.env, frame.decls) \in Env
    BY <1>2, ForgetType
  <2> QED
    BY <1>2, <1>3, <2>1 DEF PathLeg, Leg
<1>6. InPlace(leg.frames) /\ FrameInPlace(frame, leg.frames)
  BY <1>1, <1>2, <1>4, InPlaceTail DEF frame
<1>7. frame.decls \in SUBSET Temps /\ (frame.loop # NoNode => Around[name][frame.loop] = Strip(leg.frames))
  BY <1>6 DEF FrameInPlace
<1>8. DeadStays(leg.env) /\ CleanEnv(leg.env)
  BY <1>2, <1>4, ForgetDead, ForgetClean
<1>9. \A st : \A s \in Store : Stored(top.env, st, s) => Stored(leg.env, st, s)
  BY <1>2, <1>4, <1>7, ForgetStored
<1>10. LegInPlace(leg)
  BY <1>4, <1>6, <1>8 DEF LegInPlace
<1> QED
  BY <1>4, <1>5, <1>7, <1>8, <1>9, <1>10

\* The walk leaves a list, or a lap of a loop, and the process does.
LEMMA EndOfFrameExecutes == NothingDead /\ Executing /\ EndOfFrame => Executing'
<1> SUFFICES ASSUME NothingDead, Executing, EndOfFrame PROVE Executing'
  OBVIOUS
<1> DEFINE leg == [top EXCEPT !.env = Forget(@, frame.decls), !.frames = Tail(@)]
<1>1. /\ InFrame /\ Walking /\ top.cs = NoNode /\ top.frames # <<>>
      /\ frame.todo = <<>> /\ frame.loop = NoNode
      /\ Replace(<<leg>>) /\ UNCHANGED <<name, proc, out, walked>>
  BY DEF EndOfFrame, InFrame, InLeg
<1>2. /\ leg \in PathLeg /\ leg.from = top.from /\ leg.guard = top.guard /\ leg.cs = NoNode
      /\ leg.action = top.action /\ leg.frames = Tail(top.frames) /\ LegInPlace(leg)
      /\ \A st : \A s \in Store : Stored(top.env, st, s) => Stored(leg.env, st, s)
  BY <1>1, PastFrame
<1>3. TypeOK /\ top.frames \in Seq(Frame)
  BY <1>1, TopInPlace
<1> HIDE DEF leg
<1>4. ASSUME NEW s \in Store, NEW c, Meets(top, c, s)
      PROVE  Meets(leg, Process!Advance(nodes, c), s)
  <2> DEFINE fr == c.frames
             st == c.store
             wr == c.writes
  <2>1. /\ c = Config(fr, st, wr) /\ fr = Strip(top.frames)
        /\ Stored(top.env, st, s) /\ Assigns(top.action, st, wr, s)
    BY <1>1, <1>4 DEF Meets, Stands
  <2>2. fr # <<>> /\ Head(fr) = Bare(frame) /\ Tail(fr) = Strip(leg.frames)
    BY <1>1, <1>2, <1>3, <2>1, StripTail DEF frame
  <2>3. Head(fr).todo = <<>> /\ Head(fr).loop = NoNode
    BY <1>1, <2>2, BareFields
  <2> HIDE DEF fr, st, wr
  <2>4. Process!Advance(nodes, c) = Config(Tail(fr), st, wr)
    BY <2>1, <2>2, <2>3, AdvanceEnd
  <2>5. Stands(leg, Tail(fr))
    BY <1>1, <1>2, <2>2 DEF Stands
  <2>6. Stored(leg.env, st, s) /\ Assigns(leg.action, st, wr, s)
    BY <1>2, <2>1
  <2> QED
    BY <2>4, <2>5, <2>6, MeetsIs
<1> QED
  BY <1>1, <1>2, <1>3, <1>4, StepExecutes

\* A sequence and what it was put in front of.
LEMMA ConcatHeadTail ==
  ASSUME NEW S, NEW f \in S, NEW frames \in Seq(S)
  PROVE  Head(<<f>> \o frames) = f /\ Tail(<<f>> \o frames) = frames
<1> DEFINE all == <<f>> \o frames
<1>1. all \in Seq(S) /\ Len(all) = 1 + Len(frames) /\ all[1] = f
      /\ \A i \in 1 .. Len(frames) : all[i + 1] = frames[i]
  BY AboveConcat
<1>2. Len(frames) \in Nat
  BY LenProperties
<1> HIDE DEF all
<1>3. all # <<>>
  BY <1>1, <1>2, EmptySeq
<1>4. /\ Head(all) = f /\ Tail(all) \in Seq(S) /\ Len(Tail(all)) = Len(frames)
      /\ \A i \in 1 .. Len(frames) : Tail(all)[i] = frames[i]
  BY <1>1, <1>2, <1>3, HeadTailProperties
<1>5. Tail(all) = frames
  BY <1>4, SameSeq
<1> QED
  BY <1>4, <1>5 DEF all

\* The frame a statement is entered with is in its place if the tree has it
\* there.
LEMMA PushInPlace ==
  ASSUME name \in Names, NEW frames \in Seq(Frame), InPlace(frames), NEW k \in NodeRef,
         NEW loop \in LoopNode \cup {NoNode}, loop # NoNode => Around[name][loop] = Strip(frames),
         k # NoNode =>
           Placed(name, <<[todo |-> Process!Listed(nodes, k), loop |-> loop, left |-> 0]>> \o Strip(frames))
  PROVE  InPlace(PushFrame(frames, k, loop))
<1>1. CASE k = NoNode
  BY <1>1 DEF PushFrame
<1>2. CASE k # NoNode
  <2>1. k \in NodeId
    BY <1>2 DEF NodeRef
  <2> DEFINE todo  == IF nodes[k].kind = "block" THEN nodes[k].kids ELSE <<k>>
             decls == IF nodes[k].kind = "block" THEN nodes[k].decls ELSE {}
             f     == [todo |-> todo, loop |-> loop, decls |-> decls]
             b     == [todo |-> todo, loop |-> loop, left |-> 0]
  <2>2. PushFrame(frames, k, loop) = <<f>> \o frames
    BY <1>2 DEF PushFrame
  <2>3. todo \in Seq(NodeId) /\ todo = Process!Listed(nodes, k)
    <3>1. <<k>> \in Seq(NodeId)
      BY <2>1, OneSeq
    <3> QED
      BY <1>2, <2>1, <3>1, NodeFacts DEF Process!Listed
  <2>4. decls \in SUBSET Temps /\ decls \in SUBSET Vars
    <3>1. nodes[k].decls \in SUBSET Temps
      BY <2>1, DisciplineAssumption DEF nodes
    <3> QED
      BY <3>1, ProgramAssumption
  <2>5. \A j \in DOMAIN todo : nodes[todo[j]].kind = "block" =>
          \E m \in NodeId : nodes[m].kind = "block"
            /\ \E i \in DOMAIN nodes[m].kids : nodes[m].kids[i] = todo[j]
    <3>1. CASE nodes[k].kind = "block"
      BY <2>1, <3>1
    <3>2. CASE nodes[k].kind # "block"
      <4>1. DOMAIN <<k>> = {1} /\ <<k>>[1] = k
        BY OneSeq
      <4> QED
        BY <3>2, <4>1
    <3> QED
      BY <3>1, <3>2
  <2>6. Strip(frames) \in Seq({Bare(g) : g \in Frame})
    BY StripSeq
  <2> DEFINE placed == <<b>> \o Strip(frames)
  <2>7. Head(placed) = b /\ Tail(placed) = Strip(frames)
    <3>1. Strip(frames) \in Seq({Bare(g) : g \in Frame} \cup {b}) /\ b \in {Bare(g) : g \in Frame} \cup {b}
      <4> HIDE DEF b
      <4>1. {Bare(g) : g \in Frame} \subseteq {Bare(g) : g \in Frame} \cup {b}
        OBVIOUS
      <4> QED
        BY <2>6, <4>1, SeqMonotonic
    <3> HIDE DEF b
    <3> QED
      BY <3>1, ConcatHeadTail
  <2>8. Placed(name, placed)
    BY <1>2, <2>3
  <2> HIDE DEF placed
  <2>9. ASSUME NEW j \in DOMAIN todo
        PROVE  Around[name][todo[j]] = Strip(<<[f EXCEPT !.todo = SubSeq(@, j + 1, Len(@))]>> \o frames)
    <3> DEFINE rest == SubSeq(todo, j + 1, Len(todo))
               g    == [todo |-> rest, loop |-> loop, decls |-> decls]
    <3>1. [f EXCEPT !.todo = SubSeq(@, j + 1, Len(@))] = g
      <4>1. \A u, v, w, x : [[todo |-> u, loop |-> v, decls |-> w] EXCEPT !.todo = x]
                              = [todo |-> x, loop |-> v, decls |-> w]
        OBVIOUS
      <4>2. f.todo = todo
        OBVIOUS
      <4>3. [f EXCEPT !.todo = SubSeq(@, j + 1, Len(@))] = [f EXCEPT !.todo = rest]
        <5> HIDE DEF todo, f
        <5> QED
          BY <4>2
      <4> HIDE DEF rest, todo, decls
      <4> QED
        BY <4>1, <4>3
    <3>2. Bare(g) = [todo |-> rest, loop |-> loop, left |-> 0]
      BY DEF Bare
    <3>3. Strip(<<g>> \o frames) = <<Bare(g)>> \o Strip(frames)
      <4>1. rest \in Seq(NodeId)
        BY <2>3, <2>9, LenProperties, SubSeqProperties
      <4>2. g \in Frame
        BY <2>4, <4>1 DEF Frame
      <4> HIDE DEF g
      <4> QED
        BY <4>2, StripConcat
    <3>4. Head(placed).todo = todo /\ [Head(placed) EXCEPT !.todo = rest] = [todo |-> rest, loop |-> loop, left |-> 0]
      <4> HIDE DEF rest, todo
      <4> QED
        BY <2>7
    <3>5. Around[name][todo[j]]
            = <<[Head(placed) EXCEPT !.todo = SubSeq(@, j + 1, Len(@))]>> \o Tail(placed)
      BY <2>8, <2>9, <3>4 DEF Placed
    <3>6. [Head(placed) EXCEPT !.todo = SubSeq(@, j + 1, Len(@))] = [Head(placed) EXCEPT !.todo = rest]
      BY <3>4
    <3> HIDE DEF rest, g
    <3> QED
      BY <2>7, <3>1, <3>2, <3>3, <3>4, <3>5, <3>6
  <2>10. f.todo = todo /\ f.loop = loop /\ f.decls = decls
    OBVIOUS
  <2>11. FrameInPlace(f, frames)
    <3> HIDE DEF f, todo, decls
    <3> QED
      BY <2>4, <2>5, <2>9, <2>10 DEF FrameInPlace
  <2>12. f \in Frame
    BY <2>3, <2>4 DEF Frame
  <2> HIDE DEF f
  <2> QED
    BY <2>2, <2>11, <2>12, InPlaceConcat
<1> QED
  BY <1>1, <1>2

\* Past its statement the leg is in place, and that statement was.
LEMMA AdvancedInPlace ==
  ASSUME NothingDead, Executing, NEW kinds, At(kinds)
  PROVE  /\ InPlace(Advanced.frames) /\ LegInPlace(Advanced)
         /\ Around[name][stmt] = Strip(Advanced.frames)
         /\ nodes[stmt].kind = "block" =>
              \E b \in NodeId : nodes[b].kind = "block"
                /\ \E k \in DOMAIN nodes[b].kids : nodes[b].kids[k] = stmt
<1>1. Walking /\ top.cs = NoNode /\ top.frames # <<>> /\ frame.todo # <<>> /\ InFrame
  BY DEF At, InFrame, InLeg
<1>2. /\ TypeOK /\ top \in PathLeg /\ top.frames \in Seq(Frame) /\ InPlace(top.frames)
      /\ DeadStays(top.env)
  BY <1>1, TopInPlace
<1>3. frame \in Frame /\ Tail(top.frames) \in Seq(Frame) /\ stmt \in NodeId
  BY <1>1, <1>2, FrameFacts
<1>4. InPlace(Tail(top.frames)) /\ FrameInPlace(frame, Tail(top.frames))
  BY <1>1, <1>2, InPlaceTail DEF frame
<1> DEFINE f == [frame EXCEPT !.todo = Tail(@)]
<1>5. /\ FrameInPlace(f, Tail(top.frames))
      /\ Around[name][stmt] = Strip(<<f>> \o Tail(top.frames))
      /\ nodes[stmt].kind = "block" =>
           \E b \in NodeId : nodes[b].kind = "block"
             /\ \E k \in DOMAIN nodes[b].kids : nodes[b].kids[k] = stmt
  BY <1>1, <1>3, <1>4, InPlaceOnward DEF stmt
<1>6. f \in Frame
  <2>1. Tail(frame.todo) \in Seq(NodeId)
    BY <1>1, <1>3, HeadTailProperties DEF Frame
  <2> QED
    BY <1>3, <2>1 DEF Frame
<1>7. Advanced.frames = <<f>> \o Tail(top.frames) /\ Advanced.env = top.env /\ Advanced.cs = NoNode
  BY <1>1, <1>2 DEF Advanced, PathLeg, Leg
<1> HIDE DEF f
<1>8. InPlace(Advanced.frames)
  BY <1>3, <1>4, <1>5, <1>6, <1>7, InPlaceConcat
<1> QED
  BY <1>2, <1>5, <1>7, <1>8 DEF LegInPlace

\* At a statement that is no wait the thread executes that statement.
LEMMA MeetsStatement ==
  ASSUME NothingDead, Executing, NEW kinds, At(kinds), "wait" \notin kinds,
         NEW s \in Store, NEW c, Meets(top, c, s)
  PROVE  \E fr, st, wr :
           /\ c = Config(fr, st, wr) /\ fr = Strip(top.frames)
           /\ Stored(top.env, st, s) /\ Assigns(top.action, st, wr, s)
           /\ st \in Store
           /\ Process!Onward(fr) = Strip(Advanced.frames)
           /\ Process!Advance(nodes, c) = Process!Statement(nodes, stmt, c)
           /\ fr # <<>> /\ Head(fr).todo # <<>> /\ Head(Head(fr).todo) = stmt
<1>1. Walking /\ top.cs = NoNode /\ top.frames # <<>> /\ frame.todo # <<>> /\ InFrame
  BY DEF At, InFrame, InLeg
<1>2. TypeOK /\ top \in PathLeg /\ top.frames \in Seq(Frame)
  BY <1>1, TopInPlace
<1>3. frame \in Frame /\ nodes[stmt].kind \in kinds
  BY <1>1, <1>2, FrameFacts DEF At
<1> DEFINE fr == c.frames
           st == c.store
           wr == c.writes
           f  == [frame EXCEPT !.todo = Tail(@)]
<1>4. /\ c = Config(fr, st, wr) /\ fr = Strip(top.frames)
      /\ Stored(top.env, st, s) /\ Assigns(top.action, st, wr, s)
  BY <1>1 DEF Meets, Stands
<1>5. st \in Store
  BY <1>4 DEF Stored
<1>6. Advanced.frames = <<f>> \o Tail(top.frames)
  BY <1>1, <1>2 DEF Advanced, PathLeg, Leg
<1>7. f.todo = Tail(Head(top.frames).todo) /\ f.loop = Head(top.frames).loop
  BY <1>3 DEF frame, Frame
<1> HIDE DEF f, fr, st, wr
<1>8. Process!Onward(fr) = Strip(Advanced.frames)
  BY <1>1, <1>2, <1>4, <1>6, <1>7, StripOnward
<1>9. fr # <<>> /\ Head(fr) = Bare(frame)
  BY <1>1, <1>2, <1>4, StripTail DEF frame
<1>10. Head(fr).todo # <<>> /\ Head(Head(fr).todo) = stmt
  BY <1>1, <1>9, BareFields DEF stmt
<1>11. nodes[stmt].kind # "wait"
  BY <1>3
<1>12. c.frames = fr
  BY DEF fr
<1>13. Process!Advance(nodes, c) = Process!Statement(nodes, stmt, c)
  BY <1>9, <1>10, <1>11, <1>12, AdvanceStatement
<1> QED
  BY <1>4, <1>5, <1>8, <1>9, <1>10, <1>13

\* The frames of a leg that enters a block, an arm or what a wait holds.
LEMMA KidPlaced ==
  ASSUME name \in Names, NEW n \in NodeId, nodes[n].kind \notin {"while", "forever", "block"},
         NEW i \in DOMAIN nodes[n].kids, NEW frames \in Seq(Frame), InPlace(frames),
         Around[name][n] = Strip(frames)
  PROVE  InPlace(PushFrame(frames, nodes[n].kids[i], NoNode))
<1> DEFINE k == nodes[n].kids[i]
<1>1. k \in NodeRef
  <2>1. nodes[n].kids \in Seq(NodeRef)
    BY NodeFacts
  <2> QED
    BY <2>1
<1>2. k # NoNode => Placed(name, Process!Pushed(nodes, Around[name][n], k))
  <2> HAVE k # NoNode
  <2>1. ~IsLoop(nodes[n]) /\ nodes[n].kind # "block" =>
          Placed(name, Process!Pushed(nodes, Around[name][n], k))
    BY AroundAssumption DEF nodes
  <2>2. ~IsLoop(nodes[n]) /\ nodes[n].kind # "block"
    BY DEF IsLoop
  <2> HIDE DEF k
  <2> QED
    BY <2>1, <2>2
<1>3. k # NoNode => Placed(name, <<[todo |-> Process!Listed(nodes, k), loop |-> NoNode, left |-> 0]>> \o Strip(frames))
  BY <1>2 DEF Process!Pushed
<1> HIDE DEF k
<1>4. InPlace(PushFrame(frames, k, NoNode))
  BY <1>1, <1>3, PushInPlace
<1> QED
  BY <1>4 DEF k

\* A leg that differs from the advanced one in its frames alone.
LEMMA Framed ==
  ASSUME NothingDead, Executing, NEW kinds, At(kinds), NEW frames \in Seq(Frame), InPlace(frames),
         NEW leg, leg = [Advanced EXCEPT !.frames = frames]
  PROVE  /\ leg \in PathLeg /\ leg.from = top.from /\ leg.guard = top.guard /\ leg.cs = NoNode
         /\ leg.action = top.action /\ leg.env = top.env /\ leg.frames = frames
         /\ leg.lapped = top.lapped /\ LegInPlace(leg)
<1>1. TypeOK
  BY DEF NothingDead
<1>2. /\ Advanced \in PathLeg
      /\ Advanced.from = top.from /\ Advanced.guard = top.guard
      /\ Advanced.action = top.action /\ Advanced.env = top.env
      /\ Advanced.cs = NoNode /\ Advanced.lapped = top.lapped
  BY <1>1, AtFacts
<1>3. leg \in PathLeg
  BY <1>2, LegUpdates
<1>4. /\ leg.from = top.from /\ leg.guard = top.guard /\ leg.cs = NoNode
      /\ leg.action = top.action /\ leg.env = top.env /\ leg.frames = frames
      /\ leg.lapped = top.lapped
  BY <1>2 DEF PathLeg, Leg
<1>5. DeadStays(top.env)
  BY TopInPlace DEF At, InFrame, InLeg
<1> QED
  BY <1>3, <1>4, <1>5 DEF LegInPlace

\* The walk enters a block in one step, and its nested first blocks with it; the
\* process enters them one by one.
LEMMA EnterBlockExecutes == NothingDead /\ Executing /\ EnterBlock => Executing'
<1> SUFFICES ASSUME NothingDead, Executing, EnterBlock PROVE Executing'
  OBVIOUS
<1>1. At({"block"}) /\ UNCHANGED <<name, proc, out, walked>> /\ TypeOK
  BY DEF EnterBlock, NothingDead
<1>2. /\ Walking /\ top.cs = NoNode /\ name \in Names /\ stmt \in NodeId
      /\ nodes[stmt].kind = "block" /\ Advanced.frames \in Seq(Frame)
  BY <1>1, AtFacts DEF At, InFrame, InLeg
<1> DEFINE frames == PushFrame(Advanced.frames, stmt, NoNode)
           leg == [Advanced EXCEPT !.frames = frames]
<1>3. Replace(<<leg>>)
  BY DEF EnterBlock
<1>4. frames \in Seq(Frame)
  BY <1>2, PushFrameType DEF NodeRef
<1>5. /\ InPlace(Advanced.frames) /\ Around[name][stmt] = Strip(Advanced.frames)
      /\ \E b \in NodeId : nodes[b].kind = "block"
                /\ \E k \in DOMAIN nodes[b].kids : nodes[b].kids[k] = stmt
  BY <1>1, <1>2, AdvancedInPlace
<1>6. stmt # NoNode
  BY <1>2, ProgramAssumption
<1>7. Placed(name, Process!Pushed(nodes, Around[name][stmt], stmt))
  <2>1. PICK b \in NodeId : nodes[b].kind = "block"
                /\ \E k \in DOMAIN nodes[b].kids : nodes[b].kids[k] = stmt
    BY <1>5
  <2> QED
    BY <1>2, <1>6, <2>1, AroundAssumption DEF IsLoop, nodes
<1>8. InPlace(frames)
  <2>1. Placed(name, <<[todo |-> Process!Listed(nodes, stmt), loop |-> NoNode, left |-> 0]>>
                       \o Strip(Advanced.frames))
    BY <1>5, <1>6, <1>7 DEF Process!Pushed
  <2> QED
    BY <1>2, <1>5, <2>1, PushInPlace DEF NodeRef
<1> HIDE DEF frames
<1>9. /\ leg \in PathLeg /\ leg.from = top.from /\ leg.guard = top.guard /\ leg.cs = NoNode
      /\ leg.action = top.action /\ leg.env = top.env /\ leg.frames = frames /\ LegInPlace(leg)
  BY <1>1, <1>4, <1>8, Framed
<1> HIDE DEF leg
<1>10. ASSUME NEW s \in Store, NEW c, Meets(top, c, s)
       PROVE  Meets(leg, Process!Advance(nodes, c), s)
  <2>1. PICK fr, st, wr :
           /\ c = Config(fr, st, wr)
           /\ Stored(top.env, st, s) /\ Assigns(top.action, st, wr, s)
           /\ Process!Onward(fr) = Strip(Advanced.frames)
           /\ Process!Advance(nodes, c) = Process!Statement(nodes, stmt, c)
    BY <1>1, <1>10, MeetsStatement
  <2>2. Process!Advance(nodes, c) = Config(Process!Pushed(nodes, Strip(Advanced.frames), stmt), st, wr)
    BY <1>2, <2>1, StatementIs
  <2>3. Process!Pushed(nodes, Strip(Advanced.frames), stmt) = Strip(leg.frames)
    BY <1>2, <1>9, StripPushed DEF frames
  <2>4. Stands(leg, Strip(leg.frames))
    BY <1>9 DEF Stands
  <2>5. Stored(leg.env, st, s) /\ Assigns(leg.action, st, wr, s)
    BY <1>9, <2>1
  <2> QED
    BY <2>2, <2>3, <2>4, <2>5, MeetsIs
<1> QED
  BY <1>1, <1>2, <1>3, <1>9, <1>10, StepExecutes

\* What a statement assigns is what the leg makes of its right-hand side.
LEMMA SameValue ==
  ASSUME NothingDead, Executing, At({nodes[stmt].kind}), ~ReadsDeadTemp,
         nodes[stmt].kind \in {"nba", "induced", "temp", "decoded"}
  PROVE  LET x == SubstExpr(nodes[stmt].val, top.env)
         IN  /\ x \in Value /\ ~ReadsDead(x) /\ nodes[stmt].var \in Vars /\ nodes[stmt].val \in Expr
             /\ \A st : \A s \in Store : Stored(top.env, st, s) => x[s] = nodes[stmt].val[st]
             /\ top.env \in Env /\ DeadStays(top.env) /\ LegInPlace(Advanced)
             /\ top.action \in SUBSET Commit /\ stmt \in NodeId /\ name \in Names
             /\ Advanced \in PathLeg /\ Walking /\ top.cs = NoNode /\ TypeOK
<1> DEFINE x == SubstExpr(nodes[stmt].val, top.env)
<1>1. x \in Value /\ ~ReadsDead(x) /\ nodes[stmt].var \in Vars
  BY RightHandSide
<1>2. /\ TypeOK /\ Walking /\ top.cs = NoNode /\ name \in Names /\ stmt \in NodeId /\ Advanced \in PathLeg
  BY AtFacts DEF NothingDead, At, InFrame, InLeg
<1>3. nodes[stmt].val \in Expr
  BY <1>2, NodeFacts
<1>4. top.env \in Env /\ DeadStays(top.env) /\ top \in PathLeg
  BY <1>2, TopInPlace
<1>5. top.action \in SUBSET Commit
  BY <1>4 DEF PathLeg, Leg
<1>6. LegInPlace(Advanced)
  BY AdvancedInPlace
<1>7. \A st : \A s \in Store : Stored(top.env, st, s) => x[s] = nodes[stmt].val[st]
  BY <1>1, Reads
<1> QED
  BY <1>1, <1>2, <1>3, <1>4, <1>5, <1>6, <1>7

\* A temporary or an output assigned leaves the commits as they were.
LEMMA BoundAssigns ==
  ASSUME NEW action, NEW st \in Store, NEW wr, NEW s, Assigns(action, st, wr, s),
         NEW v \in Vars, v \in AssignedAtOnce(name), v \in Temps \cup Decoded, NEW k
  PROVE  Assigns(action, [st EXCEPT ![v] = k], wr, s)
<1>1. \A u \in Vars : u # v => [st EXCEPT ![v] = k][u] = st[u]
  BY DEF Store, WideStore
<1>2. \A cm \in action : cm.var # v
  BY DEF Assigns
<1> DEFINE new == [st EXCEPT ![v] = k]
<1>3. \A cm \in action : new[cm.var] = st[cm.var]
  BY <1>2 DEF Store, WideStore
<1> HIDE DEF new
<1> QED
  BY <1>1, <1>3 DEF Assigns, new

\* An induced commit in place of those before it to its target.
LEMMA InducedAssigns ==
  ASSUME NEW action \in SUBSET Commit, NEW st \in Store, NEW wr, NEW s, Assigns(action, st, wr, s),
         NEW v \in Vars, v \in AssignedAtOnce(name), v \notin Temps \cup Decoded,
         NEW cm, cm.var = v, cm.induced = TRUE, NEW k, k = Truncate(v, cm.val[s])
  PROVE  Assigns({c \in action : ~(c.induced /\ c.var = v)} \cup {cm}, [st EXCEPT ![v] = k], wr, s)
<1> DEFINE new == [st EXCEPT ![v] = k]
           left == {c \in action : ~(c.induced /\ c.var = v)}
<1>1. new[v] = k /\ \A u \in Vars : u # v => new[u] = st[u]
  BY DEF Store, WideStore
<1>2. \A c \in action : c.var \in Vars /\ c.induced \in BOOLEAN
  BY DEF Commit
<1>3. /\ \A c \in left : c \in action /\ (c.induced => c.var # v)
      /\ \A c \in action : ~c.induced \/ c.var # v => c \in left
  BY <1>2
<1> HIDE DEF new, left
<1>4. \A c \in left \cup {cm} : c.var \notin Temps \cup Decoded
  BY <1>3 DEF Assigns
<1>5. \A c \in left \cup {cm} : c.induced => new[c.var] = Truncate(c.var, c.val[s])
  BY <1>1, <1>2, <1>3 DEF Assigns
<1>6. \A c \in left \cup {cm} : ~c.induced => c.var \in DOMAIN wr
  BY <1>3 DEF Assigns
<1>7. \A u \in DOMAIN wr : \E c \in left \cup {cm} :
        ~c.induced /\ c.var = u /\ wr[u] = Truncate(u, c.val[s])
  BY <1>3 DEF Assigns
<1>8. \A u \in Vars : new[u] # s[u] =>
        /\ u \in AssignedAtOnce(name)
        /\ u \in Temps \cup Decoded \/ \E c \in left \cup {cm} : c.var = u
  BY <1>1, <1>3 DEF Assigns
<1>9. Assigns(left \cup {cm}, new, wr, s)
  BY <1>4, <1>5, <1>6, <1>7, <1>8 DEF Assigns
<1> QED
  BY <1>9 DEF left, new

\* A user commit in place of the induced ones to its target.
LEMMA UserAssigns ==
  ASSUME NEW action \in SUBSET Commit, NEW st, NEW wr, NEW s, Assigns(action, st, wr, s),
         NEW v \in Vars, v \notin Temps \cup Decoded,
         NEW cm, cm.var = v, cm.induced = FALSE, NEW k, k = Truncate(v, cm.val[s])
  PROVE  Assigns({c \in action : ~(c.induced /\ c.var = v)} \cup {cm}, st,
                 Process!Scheduled(wr, v, k), s)
<1> DEFINE new == Process!Scheduled(wr, v, k)
           left == {c \in action : ~(c.induced /\ c.var = v)}
<1>1. /\ DOMAIN new = DOMAIN wr \cup {v} /\ new[v] = k
      /\ \A u \in DOMAIN wr : u # v => new[u] = wr[u]
  BY DEF Process!Scheduled
<1>2. \A c \in action : c.var \in Vars /\ c.induced \in BOOLEAN
  BY DEF Commit
<1>3. /\ \A c \in left : c \in action /\ (c.induced => c.var # v)
      /\ \A c \in action : ~c.induced \/ c.var # v => c \in left
  BY <1>2
<1> HIDE DEF new, left
<1>4. \A c \in left \cup {cm} : c.var \notin Temps \cup Decoded
  BY <1>3 DEF Assigns
<1>5. \A c \in left \cup {cm} : c.induced => st[c.var] = Truncate(c.var, c.val[s])
  BY <1>1, <1>2, <1>3 DEF Assigns
<1>6. \A c \in left \cup {cm} : ~c.induced => c.var \in DOMAIN new
  BY <1>1, <1>3 DEF Assigns
<1>7. \A u \in DOMAIN new : \E c \in left \cup {cm} :
        ~c.induced /\ c.var = u /\ new[u] = Truncate(u, c.val[s])
  <2>1. \A u \in DOMAIN wr : \E c \in left :
          ~c.induced /\ c.var = u /\ wr[u] = Truncate(u, c.val[s])
    BY <1>3 DEF Assigns
  <2> QED
    BY <1>1, <2>1
<1>8. \A u \in Vars : st[u] # s[u] =>
        /\ u \in AssignedAtOnce(name)
        /\ u \in Temps \cup Decoded \/ \E c \in left \cup {cm} : c.var = u
  BY <1>1, <1>3 DEF Assigns
<1>9. Assigns(left \cup {cm}, st, new, s)
  BY <1>4, <1>5, <1>6, <1>7, <1>8 DEF Assigns
<1> QED
  BY <1>9 DEF left, new

\* A temporary is bound to what the process assigns it.
LEMMA BlockingExecutes == NothingDead /\ Executing /\ Blocking => Executing'
<1> SUFFICES ASSUME NothingDead, Executing, Blocking PROVE Executing'
  OBVIOUS
<1> DEFINE v == nodes[stmt].var
           x == SubstExpr(nodes[stmt].val, top.env)
           y == TruncateValue(v, x)
           leg == [Advanced EXCEPT !.env = Bind(@, v, y)]
<1>1. /\ At({"temp"}) /\ ~ReadsDeadTemp /\ UNCHANGED <<name, proc, out, walked>>
      /\ Replace(<<leg>>) /\ nodes[stmt].kind = "temp"
  BY DEF Blocking, At
<1>2. At({nodes[stmt].kind})
  BY <1>1
<1>3. /\ x \in Value /\ ~ReadsDead(x) /\ v \in Vars /\ nodes[stmt].val \in Expr
      /\ \A st : \A s \in Store : Stored(top.env, st, s) => x[s] = nodes[stmt].val[st]
      /\ top.env \in Env /\ DeadStays(top.env) /\ LegInPlace(Advanced)
      /\ stmt \in NodeId /\ name \in Names
      /\ Advanced \in PathLeg /\ Walking /\ top.cs = NoNode /\ TypeOK
  BY <1>1, <1>2, SameValue
<1>4. /\ Advanced.from = top.from /\ Advanced.guard = top.guard
      /\ Advanced.action = top.action /\ Advanced.env = top.env /\ Advanced.cs = NoNode
  BY <1>1, <1>3, AtFacts
<1> HIDE DEF x
<1>5. y \in Value /\ ~ReadsDead(y) /\ \A s \in Store : y[s] = Truncate(v, x[s])
  BY <1>3, TruncateValueType, TruncateClean DEF TruncateValue
<1>6. Bind(top.env, v, y) \in Env /\ DeadStays(Bind(top.env, v, y))
  BY <1>3, <1>5, BindType, BindDead
<1> HIDE DEF y, v
<1>7. /\ leg \in PathLeg /\ leg.from = top.from /\ leg.guard = top.guard /\ leg.cs = NoNode
      /\ leg.action = top.action /\ leg.env = Bind(top.env, v, y) /\ leg.frames = Advanced.frames
  BY <1>3, <1>4, <1>6, LegUpdates DEF PathLeg, Leg
<1>8. LegInPlace(leg)
  BY <1>3, <1>6, <1>7 DEF LegInPlace
<1>9. v \in Temps /\ v \in AssignedAtOnce(name)
  BY <1>1, <1>3, DisciplineAssumption DEF v, nodes, AssignedAtOnce
<1> HIDE DEF leg
<1>10. ASSUME NEW s \in Store, NEW c, Meets(top, c, s)
       PROVE  Meets(leg, Process!Advance(nodes, c), s)
  <2>1. PICK fr, st, wr :
           /\ c = Config(fr, st, wr)
           /\ Stored(top.env, st, s) /\ Assigns(top.action, st, wr, s) /\ st \in Store
           /\ Process!Onward(fr) = Strip(Advanced.frames)
           /\ Process!Advance(nodes, c) = Process!Statement(nodes, stmt, c)
    BY <1>1, <1>10, MeetsStatement
  <2> DEFINE new == [st EXCEPT ![v] = y[s]]
  <2>2. x[s] = nodes[stmt].val[st]
    BY <1>3, <2>1
  <2>3. /\ Process!Assigned(st, v, nodes[stmt].val) = new
        /\ Process!Assigned(st, v, nodes[stmt].val) \in Store
    BY <1>3, <1>5, <2>1, <2>2, AssignedType
  <2>4. Process!Advance(nodes, c)
          = Config(Strip(Advanced.frames), Process!Assigned(st, v, nodes[stmt].val), wr)
    BY <1>1, <2>1, StatementIs DEF v
  <2>5. Stored(leg.env, new, s)
    BY <1>3, <1>5, <1>7, <2>1, <2>3, BindStored
  <2>6. Assigns(leg.action, new, wr, s)
    BY <1>3, <1>7, <1>9, <2>1, BoundAssigns
  <2>7. Stands(leg, Strip(Advanced.frames))
    BY <1>7 DEF Stands
  <2> HIDE DEF new
  <2> QED
    BY <2>3, <2>4, <2>5, <2>6, <2>7, MeetsIs
<1> QED
  BY <1>1, <1>3, <1>7, <1>8, <1>10, StepExecutes

\* A statement that loses no bits assigns its value whole.
LEMMA KeptWhole ==
  ASSUME NEW c, NEW fr, NEW st, NEW wr, c = Config(fr, st, wr), NEW n,
         fr # <<>>, Head(fr).todo # <<>>, Head(Head(fr).todo) = n,
         nodes[n].kind \in {"induced", "decoded"}, ~Process!Loses(nodes, c),
         nodes[n].var \in Vars, nodes[n].val \in Expr, st \in Store
  PROVE  Truncate(nodes[n].var, nodes[n].val[st]) = nodes[n].val[st]
<1>1. c.frames = fr /\ c.store = st
  BY ConfigFields
<1>2. Process!AtStatement(nodes, c, {"induced", "decoded"})
  BY <1>1 DEF Process!AtStatement
<1>3. ~(nodes[n].val[st] >= Modulus[nodes[n].var])
  BY <1>1, <1>2 DEF Process!Loses
<1>4. nodes[n].val[st] \in Wide
  BY StoreIsWide DEF Expr
<1>5. Modulus[nodes[n].var] \in Nat /\ nodes[n].val[st] \in Nat
  BY <1>4, ExprAssumption DEF Wide
<1> QED
  BY <1>3, <1>4, <1>5, TruncateFits

\* An output is bound to what the process assigns it.
LEMMA DecodedOutputExecutes == NothingDead /\ Executing /\ DecodedOutput => Executing'
<1> SUFFICES ASSUME NothingDead, Executing, DecodedOutput PROVE Executing'
  OBVIOUS
<1> DEFINE v == nodes[stmt].var
           x == SubstExpr(nodes[stmt].val, top.env)
           leg == [Advanced EXCEPT !.env = Bind(@, v, x)]
<1>1. /\ At({"decoded"}) /\ ~ReadsDeadTemp /\ UNCHANGED <<name, proc, out, walked>>
      /\ Replace(<<leg>>) /\ nodes[stmt].kind = "decoded"
  BY DEF DecodedOutput, At
<1>2. At({nodes[stmt].kind})
  BY <1>1
<1>3. /\ x \in Value /\ ~ReadsDead(x) /\ v \in Vars /\ nodes[stmt].val \in Expr
      /\ \A st : \A s \in Store : Stored(top.env, st, s) => x[s] = nodes[stmt].val[st]
      /\ top.env \in Env /\ DeadStays(top.env) /\ LegInPlace(Advanced)
      /\ stmt \in NodeId /\ name \in Names
      /\ Advanced \in PathLeg /\ Walking /\ top.cs = NoNode /\ TypeOK
  BY <1>1, <1>2, SameValue
<1>4. /\ Advanced.from = top.from /\ Advanced.guard = top.guard
      /\ Advanced.action = top.action /\ Advanced.env = top.env /\ Advanced.cs = NoNode
  BY <1>1, <1>3, AtFacts
<1> HIDE DEF x
<1>6. Bind(top.env, v, x) \in Env /\ DeadStays(Bind(top.env, v, x))
  BY <1>3, BindType, BindDead
<1> HIDE DEF v
<1>7. /\ leg \in PathLeg /\ leg.from = top.from /\ leg.guard = top.guard /\ leg.cs = NoNode
      /\ leg.action = top.action /\ leg.env = Bind(top.env, v, x) /\ leg.frames = Advanced.frames
  BY <1>3, <1>4, <1>6, LegUpdates DEF PathLeg, Leg
<1>8. LegInPlace(leg)
  BY <1>3, <1>6, <1>7 DEF LegInPlace
<1>9. v \in Decoded /\ v \in AssignedAtOnce(name)
  <2>1. v \in Program[name].outputs
    BY <1>1, <1>3, DisciplineAssumption DEF v, nodes
  <2>2. v \in AssignedAtOnce(name)
    BY <1>1, <1>3 DEF v, nodes, AssignedAtOnce
  <2> QED
    BY <2>1, <2>2 DEF Executing, Begins
<1> HIDE DEF leg
<1>10. ASSUME NEW s \in Store, NEW c, Meets(top, c, s), ~Process!Loses(nodes, c)
       PROVE  Meets(leg, Process!Advance(nodes, c), s)
  <2>1. PICK fr, st, wr :
           /\ c = Config(fr, st, wr)
           /\ Stored(top.env, st, s) /\ Assigns(top.action, st, wr, s) /\ st \in Store
           /\ Process!Onward(fr) = Strip(Advanced.frames)
           /\ Process!Advance(nodes, c) = Process!Statement(nodes, stmt, c)
           /\ fr # <<>> /\ Head(fr).todo # <<>> /\ Head(Head(fr).todo) = stmt
    BY <1>1, <1>10, MeetsStatement
  <2> DEFINE new == [st EXCEPT ![v] = x[s]]
  <2>2. x[s] = nodes[stmt].val[st]
    BY <1>3, <2>1
  <2>9. Truncate(v, nodes[stmt].val[st]) = nodes[stmt].val[st]
    BY <1>1, <1>3, <1>10, <2>1, KeptWhole DEF v
  <2>3. /\ Process!Assigned(st, v, nodes[stmt].val) = new
        /\ Process!Assigned(st, v, nodes[stmt].val) \in Store
    BY <1>3, <2>1, <2>2, <2>9, AssignedType
  <2>4. Process!Advance(nodes, c)
          = Config(Strip(Advanced.frames), Process!Assigned(st, v, nodes[stmt].val), wr)
    BY <1>1, <2>1, StatementIs DEF v
  <2>5. Stored(leg.env, new, s)
    BY <1>3, <1>7, <2>1, <2>3, BindStored
  <2>6. Assigns(leg.action, new, wr, s)
    BY <1>3, <1>7, <1>9, <2>1, BoundAssigns
  <2>7. Stands(leg, Strip(Advanced.frames))
    BY <1>7 DEF Stands
  <2> HIDE DEF new
  <2> QED
    BY <2>3, <2>4, <2>5, <2>6, <2>7, MeetsIs
<1> QED
  BY <1>1, <1>3, <1>7, <1>8, <1>10, StepExecutes

\* A register assigned at once is committed and bound to what the process
\* assigns it, which holds when no bits are lost.
LEMMA InducedExecutes == NothingDead /\ Executing /\ Induced => Executing'
<1> SUFFICES ASSUME NothingDead, Executing, Induced PROVE Executing'
  OBVIOUS
<1> DEFINE v == nodes[stmt].var
           x == SubstExpr(nodes[stmt].val, top.env)
           cm == [at |-> stmt, var |-> v, val |-> x, induced |-> TRUE]
           Left(action) == {c \in action : ~(c.induced /\ c.var = v)}
           leg == [Advanced EXCEPT !.action = Left(@) \cup {cm}, !.env = Bind(@, v, x)]
<1>1. /\ At({"induced"}) /\ ~ReadsDeadTemp /\ UNCHANGED <<name, proc, out, walked>>
      /\ Replace(<<leg>>) /\ nodes[stmt].kind = "induced"
  BY DEF Induced, At
<1>2. At({nodes[stmt].kind})
  BY <1>1
<1>3. /\ x \in Value /\ ~ReadsDead(x) /\ v \in Vars /\ nodes[stmt].val \in Expr
      /\ \A st : \A s \in Store : Stored(top.env, st, s) => x[s] = nodes[stmt].val[st]
      /\ top.env \in Env /\ DeadStays(top.env) /\ LegInPlace(Advanced)
      /\ stmt \in NodeId /\ name \in Names /\ top.action \in SUBSET Commit
      /\ Advanced \in PathLeg /\ Walking /\ top.cs = NoNode /\ TypeOK
  BY <1>1, <1>2, SameValue
<1>4. /\ Advanced.from = top.from /\ Advanced.guard = top.guard
      /\ Advanced.action = top.action /\ Advanced.env = top.env /\ Advanced.cs = NoNode
  BY <1>1, <1>3, AtFacts
<1> HIDE DEF x
<1>6. Bind(top.env, v, x) \in Env /\ DeadStays(Bind(top.env, v, x))
  BY <1>3, BindType, BindDead
<1> HIDE DEF v
<1>5. cm.var = v /\ cm.induced = TRUE /\ cm.val = x /\ cm \in Commit
  BY <1>3 DEF Commit
<1> HIDE DEF cm
<1>11. Left(top.action) \cup {cm} \in SUBSET Commit
  BY <1>3, <1>5
<1>7. /\ leg \in PathLeg /\ leg.from = top.from /\ leg.guard = top.guard /\ leg.cs = NoNode
      /\ leg.action = Left(top.action) \cup {cm} /\ leg.env = Bind(top.env, v, x)
      /\ leg.frames = Advanced.frames
  <2> DEFINE a == [Advanced EXCEPT !.action = Left(@) \cup {cm}]
  <2>1. a = [Advanced EXCEPT !.action = Left(top.action) \cup {cm}]
    BY <1>4
  <2>2. a \in PathLeg
    BY <1>3, <1>11, <2>1, LegUpdates
  <2>3. leg = [a EXCEPT !.env = Bind(top.env, v, x)]
    BY <1>3, <1>4 DEF PathLeg, Leg
  <2>4. leg \in PathLeg
    <3> HIDE DEF a, leg
    <3> QED
      BY <1>6, <2>2, <2>3, LegUpdates
  <2>5. /\ a.from = top.from /\ a.guard = top.guard /\ a.cs = NoNode
        /\ a.action = Left(top.action) \cup {cm} /\ a.frames = Advanced.frames
    BY <1>3, <1>4 DEF PathLeg, Leg
  <2> HIDE DEF a, leg
  <2> QED
    BY <2>2, <2>3, <2>4, <2>5 DEF PathLeg, Leg
<1> HIDE DEF leg
<1>8. LegInPlace(leg)
  BY <1>3, <1>6, <1>7 DEF LegInPlace
<1>9. v \notin Temps \cup Decoded /\ v \in AssignedAtOnce(name)
  <2>1. v \notin Temps \cup Program[name].outputs
    BY <1>1, <1>3, DisciplineAssumption DEF v, nodes
  <2>2. v \in AssignedAtOnce(name)
    BY <1>1, <1>3 DEF v, nodes, AssignedAtOnce
  <2> QED
    BY <2>1, <2>2 DEF Executing, Begins
<1>10. ASSUME NEW s \in Store, NEW c, Meets(top, c, s), ~Process!Loses(nodes, c)
       PROVE  Meets(leg, Process!Advance(nodes, c), s)
  <2>1. PICK fr, st, wr :
           /\ c = Config(fr, st, wr)
           /\ Stored(top.env, st, s) /\ Assigns(top.action, st, wr, s) /\ st \in Store
           /\ Process!Onward(fr) = Strip(Advanced.frames)
           /\ Process!Advance(nodes, c) = Process!Statement(nodes, stmt, c)
           /\ fr # <<>> /\ Head(fr).todo # <<>> /\ Head(Head(fr).todo) = stmt
    BY <1>1, <1>10, MeetsStatement
  <2> DEFINE new == [st EXCEPT ![v] = x[s]]
  <2>2. x[s] = nodes[stmt].val[st]
    BY <1>3, <2>1
  <2>9. Truncate(v, nodes[stmt].val[st]) = nodes[stmt].val[st]
    BY <1>1, <1>3, <1>10, <2>1, KeptWhole DEF v
  <2>3. /\ Process!Assigned(st, v, nodes[stmt].val) = new
        /\ Process!Assigned(st, v, nodes[stmt].val) \in Store
    BY <1>3, <2>1, <2>2, <2>9, AssignedType
  <2>4. Process!Advance(nodes, c)
          = Config(Strip(Advanced.frames), Process!Assigned(st, v, nodes[stmt].val), wr)
    BY <1>1, <2>1, StatementIs DEF v
  <2>5. Stored(leg.env, new, s)
    BY <1>3, <1>7, <2>1, <2>3, BindStored
  <2>6. Assigns(leg.action, new, wr, s)
    <3>1. x[s] = Truncate(v, cm.val[s])
      BY <1>5, <2>2, <2>9
    <3>2. /\ top.action \in SUBSET Commit /\ st \in Store /\ v \in Vars
          /\ Assigns(top.action, st, wr, s)
      BY <1>3, <2>1
    <3> DEFINE k == x[s]
    <3> HIDE DEF k
    <3>3. k = Truncate(v, cm.val[s])
      BY <3>1 DEF k
    <3>4. Assigns(Left(top.action) \cup {cm}, [st EXCEPT ![v] = k], wr, s)
      BY <1>5, <1>9, <3>2, <3>3, InducedAssigns
    <3> QED
      BY <1>7, <3>4 DEF k
  <2>7. Stands(leg, Strip(Advanced.frames))
    BY <1>7 DEF Stands
  <2> HIDE DEF new
  <2> QED
    BY <2>3, <2>4, <2>5, <2>6, <2>7, MeetsIs
<1> QED
  BY <1>1, <1>3, <1>7, <1>8, <1>10, StepExecutes

\* A nonblocking assignment is committed with the value the process schedules.
LEMMA NonblockingExecutes == NothingDead /\ Executing /\ Nonblocking => Executing'
<1> SUFFICES ASSUME NothingDead, Executing, Nonblocking PROVE Executing'
  OBVIOUS
<1> DEFINE v == nodes[stmt].var
           x == SubstExpr(nodes[stmt].val, top.env)
           cm == [at |-> stmt, var |-> v, val |-> x, induced |-> FALSE]
           Left(action) == {c \in action : ~(c.induced /\ c.var = v)}
           leg == [Advanced EXCEPT !.action = Left(@) \cup {cm}]
<1>1. /\ At({"nba"}) /\ ~ReadsDeadTemp /\ UNCHANGED <<name, proc, out, walked>>
      /\ Replace(<<leg>>) /\ nodes[stmt].kind = "nba"
  BY DEF Nonblocking, At
<1>2. At({nodes[stmt].kind})
  BY <1>1
<1>3. /\ x \in Value /\ ~ReadsDead(x) /\ v \in Vars /\ nodes[stmt].val \in Expr
      /\ \A st : \A s \in Store : Stored(top.env, st, s) => x[s] = nodes[stmt].val[st]
      /\ DeadStays(top.env) /\ LegInPlace(Advanced)
      /\ stmt \in NodeId /\ name \in Names /\ top.action \in SUBSET Commit
      /\ Advanced \in PathLeg /\ Walking /\ top.cs = NoNode /\ TypeOK
  BY <1>1, <1>2, SameValue
<1>4. /\ Advanced.from = top.from /\ Advanced.guard = top.guard
      /\ Advanced.action = top.action /\ Advanced.env = top.env /\ Advanced.cs = NoNode
  BY <1>1, <1>3, AtFacts
<1> HIDE DEF x, v
<1>5. cm.var = v /\ cm.induced = FALSE /\ cm.val = x /\ cm \in Commit
  BY <1>3 DEF Commit
<1> HIDE DEF cm
<1>6. Left(top.action) \cup {cm} \in SUBSET Commit
  BY <1>3, <1>5
<1>7. /\ leg \in PathLeg /\ leg.from = top.from /\ leg.guard = top.guard /\ leg.cs = NoNode
      /\ leg.action = Left(top.action) \cup {cm} /\ leg.env = top.env
      /\ leg.frames = Advanced.frames
  <2>1. leg = [Advanced EXCEPT !.action = Left(top.action) \cup {cm}]
    BY <1>4
  <2>2. leg \in PathLeg
    BY <1>3, <1>6, <2>1, LegUpdates
  <2> QED
    BY <1>3, <1>4, <2>2 DEF PathLeg, Leg
<1> HIDE DEF leg
<1>8. LegInPlace(leg)
  BY <1>3, <1>7 DEF LegInPlace
<1>9. v \notin Temps \cup Decoded
  <2>1. v \notin Temps \cup Program[name].outputs
    BY <1>1, <1>3, DisciplineAssumption DEF v, nodes
  <2> QED
    BY <2>1 DEF Executing, Begins
<1>10. ASSUME NEW s \in Store, NEW c, Meets(top, c, s)
       PROVE  Meets(leg, Process!Advance(nodes, c), s)
  <2>1. PICK fr, st, wr :
           /\ c = Config(fr, st, wr)
           /\ Stored(top.env, st, s) /\ Assigns(top.action, st, wr, s)
           /\ Process!Onward(fr) = Strip(Advanced.frames)
           /\ Process!Advance(nodes, c) = Process!Statement(nodes, stmt, c)
    BY <1>1, <1>10, MeetsStatement
  <2> DEFINE k == Truncate(v, nodes[stmt].val[st])
  <2>2. k = Truncate(v, cm.val[s])
    BY <1>3, <1>5, <2>1
  <2>3. Process!Advance(nodes, c) = Config(Strip(Advanced.frames), st, Process!Scheduled(wr, v, k))
    BY <1>1, <2>1, StatementIs, SameTruncate DEF v
  <2> HIDE DEF k
  <2>4. Assigns(leg.action, st, Process!Scheduled(wr, v, k), s)
    <3>1. /\ top.action \in SUBSET Commit /\ v \in Vars
          /\ Assigns(top.action, st, wr, s)
      BY <1>3, <2>1
    <3>2. Assigns(Left(top.action) \cup {cm}, st, Process!Scheduled(wr, v, k), s)
      BY <1>5, <1>9, <2>2, <3>1, UserAssigns
    <3> QED
      BY <1>7, <3>2
  <2>5. Stands(leg, Strip(Advanced.frames)) /\ Stored(leg.env, st, s)
    BY <1>7, <2>1 DEF Stands
  <2> QED
    BY <2>3, <2>4, <2>5, MeetsIs
<1> QED
  BY <1>1, <1>3, <1>7, <1>8, <1>10, StepExecutes

\* Legs that go on from where the current one is from.
Fit(legs) == \A i \in DOMAIN legs : legs[i].from = top.from /\ LegInPlace(legs[i])

\* The legs a fork makes of a leg in place are from the same cut point and in
\* place: when they are alive,
LEMMA FitLive ==
  ASSUME NEW leg \in PathLeg, leg.from = top.from, leg.cs = NoNode, LegInPlace(leg),
         NEW extra \in SUBSET Literal
  PROVE  Fit(Live(leg, extra))
<1> DEFINE new == [leg EXCEPT !.guard = @ \cup extra]
<1>1. /\ new.from = leg.from /\ new.cs = leg.cs /\ new.frames = leg.frames /\ new.env = leg.env
  BY DEF PathLeg, Leg
<1>2. Live(leg, extra) = IF Contradicts(leg.guard, extra) THEN <<>> ELSE <<new>>
  BY DEF Live
<1> HIDE DEF new
<1>3. LegInPlace(new)
  BY <1>1 DEF LegInPlace
<1>4. DOMAIN <<new>> = {1} /\ <<new>>[1] = new
  BY OneSeq
<1>5. CASE Contradicts(leg.guard, extra)
  BY <1>2, <1>5 DEF Fit
<1>6. CASE ~Contradicts(leg.guard, extra)
  BY <1>1, <1>2, <1>3, <1>4, <1>6 DEF Fit
<1> QED
  BY <1>5, <1>6

\* when they are two lists of legs,
LEMMA FitConcat ==
  ASSUME NEW a \in Seq(PathLeg), NEW b \in Seq(PathLeg), Fit(a), Fit(b)
  PROVE  Fit(a \o b)
<1>1. /\ a \o b \in Seq(PathLeg) /\ Len(a \o b) = Len(a) + Len(b)
      /\ \A i \in 1 .. Len(a) + Len(b) :
           (a \o b)[i] = IF i <= Len(a) THEN a[i] ELSE b[i - Len(a)]
  BY ConcatProperties
<1>2. /\ DOMAIN (a \o b) = 1 .. Len(a) + Len(b) /\ DOMAIN a = 1 .. Len(a)
      /\ DOMAIN b = 1 .. Len(b) /\ Len(a) \in Nat /\ Len(b) \in Nat
  BY <1>1, LenProperties
<1> DEFINE all == a \o b
<1>3. /\ \A i \in DOMAIN all : (i \in DOMAIN a /\ all[i] = a[i])
                               \/ (i - Len(a) \in DOMAIN b /\ all[i] = b[i - Len(a)])
  BY <1>1, <1>2
<1> HIDE DEF all
<1>4. Fit(all)
  BY <1>3 DEF Fit
<1> QED
  BY <1>4 DEF all

\* when it is one.
LEMMA FitOne ==
  ASSUME NEW leg, leg.from = top.from, LegInPlace(leg)
  PROVE  Fit(<<leg>>)
<1>1. DOMAIN <<leg>> = {1} /\ <<leg>>[1] = leg
  BY OneSeq
<1> QED
  BY <1>1 DEF Fit

\* The two sides of a condition, of which the thread comes to the one that the
\* store of the edge decides.
LEMMA BranchExecutes ==
  ASSUME TypeOK, Executing, Walking, top.cs = NoNode,
         NEW a \in PathLeg, a.from = top.from, a.guard = top.guard, a.cs = NoNode, LegInPlace(a),
         NEW b \in PathLeg, b.from = top.from, b.guard = top.guard, b.cs = NoNode, LegInPlace(b),
         NEW l \in Literal, Replace(Live(a, {l}) \o Live(b, {Negated(l)})),
         UNCHANGED <<name, proc, out, walked>>,
         \A s \in Store : \A c : Meets(top, c, s) =>
           Meets(IF Holds(l, s) THEN a ELSE b, Process!Advance(nodes, c), s)
  PROVE  Executing'
<1> DEFINE A == Live(a, {l})
           B == Live(b, {Negated(l)})
<1>1. {l} \in SUBSET Literal /\ {Negated(l)} \in SUBSET Literal
  BY NegatedHolds
<1>2. A \in Seq(PathLeg) /\ B \in Seq(PathLeg)
  BY <1>1, LiveType
<1>3. A \o B \in Seq(PathLeg)
  BY <1>2, ConcatProperties
<1>4. Fit(A \o B)
  <2>1. Fit(A) /\ Fit(B)
    BY <1>1, FitLive
  <2> HIDE DEF A, B
  <2> QED
    BY <1>2, <2>1, FitConcat
<1>5. ASSUME NEW s \in Store PROVE Claims(top, s) \/ Silent(A \o B, top.from, s)
  <2> SUFFICES ASSUME ~Claims(top, s) PROVE Silent(A \o B, top.from, s)
    OBVIOUS
  <2>1. ~Satisfies(s, top.guard)
    BY DEF Claims
  <2>2. Silent(A, top.from, s) /\ Silent(B, top.from, s)
    BY <1>1, <2>1, LiveFollows
  <2> HIDE DEF A, B
  <2> QED
    BY <1>2, <2>2, ConcatFollows
<1>6. ASSUME NEW s \in Store, Owns(top, top.from, s) PROVE Follows(A \o B, top.from, s)
  <2>1. Reaches(top.from, s, top) /\ Satisfies(s, top.guard)
    BY <1>6 DEF Owns, Claims
  <2>2. CASE Holds(l, s)
    <3>1. Reaches(top.from, s, a)
      BY <2>1, <2>2, ReachStep
    <3>2. Satisfies(s, {l})
      BY <2>2 DEF Satisfies
    <3>3. Follows(A, top.from, s)
      BY <1>1, <2>1, <3>1, <3>2, LiveFollows
    <3> HIDE DEF A, B
    <3> QED
      BY <1>2, <3>3, ConcatFollows
  <2>3. CASE ~Holds(l, s)
    <3>1. Reaches(top.from, s, b)
      BY <2>1, <2>3, ReachStep
    <3>2. Satisfies(s, {Negated(l)}) /\ ~Satisfies(s, {l})
      BY <2>3, NegatedHolds DEF Satisfies
    <3>3. Follows(B, top.from, s)
      BY <1>1, <2>1, <3>1, <3>2, LiveFollows
    <3>4. Silent(A, top.from, s)
      BY <1>1, <3>2, LiveFollows
    <3> HIDE DEF A, B
    <3> QED
      BY <1>2, <3>3, <3>4, ConcatFollows
  <2> QED
    BY <2>2, <2>3
<1> HIDE DEF A, B
<1>7. Replace(A \o B)
  BY DEF A, B
<1>8. \A i \in DOMAIN (A \o B) : (A \o B)[i].from = top.from /\ LegInPlace((A \o B)[i])
  BY <1>4 DEF Fit
<1> QED
  BY <1>3, <1>5, <1>6, <1>7, <1>8, KeepsExecuting

\* The walk forks at an if, and the process takes the branch whose guard the
\* store satisfies.
LEMMA IfForkExecutes == NothingDead /\ Executing /\ IfFork => Executing'
<1> SUFFICES ASSUME NothingDead, Executing, IfFork PROVE Executing'
  OBVIOUS
<1> DEFINE d == nodes[stmt]
           l == SubstTest(d.tests[1], top.env)
           Taking(k) == [Advanced EXCEPT !.frames = PushFrame(@, d.kids[k], NoNode)]
           frames(k) == PushFrame(Advanced.frames, d.kids[k], NoNode)
<1>1. /\ At({"if"}) /\ ~ReadsDeadTemp /\ UNCHANGED <<name, proc, out, walked>>
      /\ Replace(Live(Taking(1), {l}) \o Live(Taking(2), {Negated(l)})) /\ d.kind = "if" /\ TypeOK
  BY DEF IfFork, At, NothingDead
<1>2. /\ Walking /\ top.cs = NoNode /\ name \in Names /\ stmt \in NodeId /\ top \in PathLeg
      /\ Advanced \in PathLeg /\ Advanced.frames \in Seq(Frame)
  BY <1>1, AtFacts DEF At, InFrame, InLeg
<1>3. /\ d.kids[1] \in NodeRef /\ d.kids[2] \in NodeRef /\ d.tests[1] \in Test /\ d.dflt = 0
      /\ 1 \in DOMAIN d.tests /\ 1 \in DOMAIN d.kids /\ 2 \in DOMAIN d.kids
  <2>1. /\ d.tests \in Seq(Test) /\ Len(d.tests) >= 1 /\ d.kids \in Seq(NodeRef)
        /\ d.kids[1] \in NodeRef /\ d.kids[2] \in NodeRef /\ d.tests[1] \in Test /\ d.dflt = 0
    BY <1>1, <1>2, NodeFacts
  <2>2. Len(d.kids) = 2
    BY <1>1, <1>2, ProgramAssumption DEF nodes
  <2> QED
    BY <2>1, <2>2
<1>4. l \in Literal /\ ~ReadsDead(l.lhs)
  <2>1. top.env \in Env
    BY <1>2 DEF PathLeg, Leg
  <2>2. SubstExpr(d.tests[1].lhs, top.env) \in Substituted
    BY <1>1, <1>3 DEF Substituted
  <2>3. ~ReadsDead(SubstExpr(d.tests[1].lhs, top.env))
    BY <1>1, <2>2 DEF ReadsDeadTemp
  <2> QED
    BY <1>3, <2>1, <2>3, SubstTestType DEF SubstTest
<1>5. InPlace(Advanced.frames) /\ Around[name][stmt] = Strip(Advanced.frames)
  BY <1>1, AdvancedInPlace
<1>6. ASSUME NEW k \in {1, 2}
      PROVE  /\ Taking(k) \in PathLeg /\ Taking(k).from = top.from /\ Taking(k).guard = top.guard
             /\ Taking(k).cs = NoNode /\ Taking(k).action = top.action /\ Taking(k).env = top.env
             /\ Taking(k).frames = frames(k) /\ LegInPlace(Taking(k))
  <2>1. frames(k) \in Seq(Frame)
    BY <1>2, <1>3, PushFrameType
  <2>2. InPlace(frames(k))
    BY <1>1, <1>2, <1>3, <1>5, KidPlaced
  <2>3. Taking(k) = [Advanced EXCEPT !.frames = frames(k)]
    BY <1>2 DEF PathLeg, Leg
  <2> DEFINE arm == Taking(k)
             entered == frames(k)
  <2> SUFFICES /\ arm \in PathLeg /\ arm.from = top.from /\ arm.guard = top.guard
               /\ arm.cs = NoNode /\ arm.action = top.action /\ arm.env = top.env
               /\ arm.frames = entered /\ LegInPlace(arm)
    OBVIOUS
  <2>4. /\ arm = [Advanced EXCEPT !.frames = entered] /\ entered \in Seq(Frame)
        /\ InPlace(entered) /\ At({"if"})
    BY <1>1, <2>1, <2>2, <2>3
  <2> HIDE DEF arm, entered
  <2> QED
    BY <2>4, Framed
<1>7. ASSUME NEW s \in Store, NEW c, Meets(top, c, s)
      PROVE  Meets(IF Holds(l, s) THEN Taking(1) ELSE Taking(2), Process!Advance(nodes, c), s)
  <2>1. PICK fr, st, wr :
           /\ c = Config(fr, st, wr)
           /\ Stored(top.env, st, s) /\ Assigns(top.action, st, wr, s)
           /\ Process!Onward(fr) = Strip(Advanced.frames)
           /\ Process!Advance(nodes, c) = Process!Statement(nodes, stmt, c)
    BY <1>1, <1>7, MeetsStatement
  <2>2. Holds(l, s) <=> Process!True(d.tests[1], st)
    BY <1>4, <2>1, ReadsTest DEF SubstTest
  <2> DEFINE k == IF Holds(l, s) THEN 1 ELSE 2
  <2>3. Process!Advance(nodes, c) = Config(Process!Pushed(nodes, Strip(Advanced.frames), d.kids[k]), st, wr)
    <3>1. Process!Statement(nodes, stmt, c)
            = Config(Process!Pushed(nodes, Strip(Advanced.frames),
                                    d.kids[IF Process!True(d.tests[1], st) THEN 1 ELSE 2]), st, wr)
      BY <1>1, <2>1, StatementIs
    <3>2. k = IF Process!True(d.tests[1], st) THEN 1 ELSE 2
      BY <2>2
    <3> HIDE DEF k, d, l
    <3> QED
      BY <2>1, <3>1, <3>2
  <2>4. k \in {1, 2} /\ Taking(k) = IF Holds(l, s) THEN Taking(1) ELSE Taking(2)
    OBVIOUS
  <2> HIDE DEF k, d, l, Taking
  <2>5. Process!Pushed(nodes, Strip(Advanced.frames), d.kids[k]) = Strip(Taking(k).frames)
    BY <1>2, <1>6, <2>4, StripPushed
  <2>6. Stands(Taking(k), Strip(Taking(k).frames)) /\ Stored(Taking(k).env, st, s) /\ Assigns(Taking(k).action, st, wr, s)
    BY <1>6, <2>1, <2>4 DEF Stands
  <2>7. Meets(Taking(k), Process!Advance(nodes, c), s)
    BY <2>3, <2>5, <2>6, MeetsIs
  <2> QED
    BY <2>4, <2>7
<1>8. /\ Taking(1) \in PathLeg /\ Taking(1).from = top.from /\ Taking(1).guard = top.guard
      /\ Taking(1).cs = NoNode /\ LegInPlace(Taking(1))
      /\ Taking(2) \in PathLeg /\ Taking(2).from = top.from /\ Taking(2).guard = top.guard
      /\ Taking(2).cs = NoNode /\ LegInPlace(Taking(2))
  BY <1>6
<1> HIDE DEF Taking, l, d
<1> QED
  BY <1>1, <1>2, <1>4, <1>7, <1>8, BranchExecutes

\* A step that leaves the stack and the cover as they are.
LEMMA SameExecuting ==
  ASSUME Executing, UNCHANGED <<name, proc, stack, out, walked>>
  PROVE  Executing'
<1>1. nodes' = nodes /\ Source' = Source /\ Decoded' = Decoded
  BY SameProcess DEF nodes, Decoded
<1>2. Begins'
  BY <1>1 DEF Executing, Begins
<1>3. ASSUME NEW leg PROVE LegInPlace(leg)' <=> LegInPlace(leg)
  BY <1>1 DEF LegInPlace, InPlace, FrameInPlace
<1>4. StackInPlace'
  BY <1>3 DEF Executing, StackInPlace
<1>5. ASSUME NEW src, NEW s PROVE Followed(src, s)' <=> Followed(src, s)
  <2>1. Follows(stack, src, s)' <=> Follows(stack, src, s)
    BY StackFollowsPrime
  <2>2. ASSUME NEW t PROVE Ends(src, s, t)' <=> Ends(src, s, t)
    BY EndsPrime
  <2>3. Took(src, s)' <=> Took(src, s)
    BY <2>2 DEF Took
  <2>4. Untaken(src, s)' <=> Untaken(src, s)
    BY DEF Untaken
  <2> QED
    BY <2>1, <2>3, <2>4 DEF Followed
<1>6. ASSUME NEW src, NEW s PROVE Exact(src, s)' <=> Exact(src, s)
  BY ThreadPrime
<1>7. PathsExecute'
  BY <1>5, <1>6 DEF Executing, PathsExecute
<1> QED
  BY <1>2, <1>4, <1>7 DEF Executing

\* A leg that enters the body of a loop at its head.
LEMMA EnteredInPlace ==
  ASSUME name \in Names, NEW leg \in PathLeg, NEW loop \in LoopNode,
         LegInPlace(leg), leg.cs = NoNode, Around[name][loop] = Strip(leg.frames)
  PROVE  /\ Entered(leg, loop) \in PathLeg /\ Entered(leg, loop).from = leg.from
         /\ Entered(leg, loop).guard = leg.guard /\ Entered(leg, loop).cs = NoNode
         /\ Entered(leg, loop).action = leg.action /\ Entered(leg, loop).env = leg.env
         /\ LegInPlace(Entered(leg, loop))
         /\ Strip(Entered(leg, loop).frames) = Process!Looped(nodes, Strip(leg.frames), loop, 0)
<1> DEFINE k == nodes[loop].kids[1]
           new == Entered(leg, loop)
<1>1. /\ new.from = leg.from /\ new.guard = leg.guard /\ new.cs = NoNode
      /\ new.action = leg.action /\ new.env = leg.env
      /\ new.frames = PushFrame(leg.frames, k, loop)
  BY DEF Entered, PathLeg, Leg
<1>2. new \in PathLeg
  BY EnteredType
<1>3. loop \in NodeId /\ nodes[loop].kind \in {"while", "forever"}
  BY DEF LoopNode
<1>4. k \in NodeRef /\ k # NoNode /\ 1 \in DOMAIN nodes[loop].kids
  <2>1. nodes[loop].kids \in Seq(NodeRef) /\ k \in NodeRef
    BY <1>3, NodeFacts
  <2>2. Len(nodes[loop].kids) = 1
    BY <1>3, ProgramAssumption DEF nodes
  <2>3. k # NoNode
    BY <1>3, DisciplineAssumption DEF IsLoop, nodes
  <2> QED
    BY <2>1, <2>2, <2>3
<1>5. Placed(name, Process!Looped(nodes, Around[name][loop], loop, 0))
  <2>1. IsLoop(nodes[loop])
    BY <1>3 DEF IsLoop
  <2> QED
    BY <1>3, <1>4, <2>1, AroundAssumption DEF nodes
<1>6. leg.frames \in Seq(Frame) /\ InPlace(leg.frames) /\ DeadStays(leg.env)
  BY DEF PathLeg, Leg, LegInPlace
<1>7. Placed(name, <<[todo |-> Process!Listed(nodes, k), loop |-> loop, left |-> 0]>> \o Strip(leg.frames))
  BY <1>5 DEF Process!Looped
<1>8. Strip(PushFrame(leg.frames, k, loop)) = Process!Looped(nodes, Strip(leg.frames), loop, 0)
  BY <1>4, <1>6, StripLooped
<1> HIDE DEF k, new
<1>9. InPlace(PushFrame(leg.frames, k, loop))
  BY <1>4, <1>6, <1>7, PushInPlace
<1>10. LegInPlace(new)
  BY <1>1, <1>6, <1>9 DEF LegInPlace
<1> QED
  BY <1>1, <1>2, <1>8, <1>10 DEF new

\* A test that the environment leaves a constant is what the thread finds.
LEMMA ConstantTest ==
  ASSUME NEW env, NEW st, NEW s \in Store, Stored(env, st, s), NEW t, NEW b \in BOOLEAN,
         IsConstant(SubstTest(t, env), b)
  PROVE  Process!True(t, st) <=> b
<1>1. PICK z \in Store : st = env[z]
  BY DEF Stored
<1>2. Holds(SubstTest(t, env), z) = b
  BY DEF IsConstant
<1>3. SubstTest(t, env).lhs[z] = t.lhs[env[z]] /\ SubstTest(t, env).rhs = t.rhs
      /\ SubstTest(t, env).eq = t.eq
  BY DEF SubstTest, SubstExpr
<1> QED
  BY <1>1, <1>2, <1>3 DEF Holds, Process!True

\* The head of a loop, at the end of a lap or on the way in.
LEMMA LoopForkExecutes ==
  ASSUME TypeOK, Executing, Walking, top.cs = NoNode, NEW leg \in PathLeg, NEW loop \in LoopNode,
         leg.from = top.from, leg.guard = top.guard, leg.cs = NoNode, LegInPlace(leg),
         Around[name][loop] = Strip(leg.frames), LoopFork(leg, loop),
         \A s \in Store : \A c : Meets(top, c, s) =>
           \E st, wr :
             /\ Process!Advance(nodes, c)
                  = Process!AtHead(nodes, Config(Strip(leg.frames), st, wr), loop, 0)
             /\ Stored(leg.env, st, s) /\ Assigns(leg.action, st, wr, s)
  PROVE  Executing'
<1>1. CASE Fail
  BY <1>1, SameExecuting DEF Fail
<1>2. CASE ~Fail
  <2>1. /\ ~ReadsDeadTest(leg, loop) /\ Replace(LoopLegs(leg, loop))
        /\ UNCHANGED <<name, proc, out, walked>>
    BY <1>2 DEF LoopFork
  <2> DEFINE body == Entered(leg, loop)
             test == nodes[loop].tests[1]
             looped == Process!Looped(nodes, Strip(leg.frames), loop, 0)
  <2>2. /\ body \in PathLeg /\ body.from = top.from /\ body.guard = top.guard /\ body.cs = NoNode
        /\ body.action = leg.action /\ body.env = leg.env /\ LegInPlace(body)
        /\ Strip(body.frames) = looped
    BY EnteredInPlace DEF TypeOK
  <2>3. nodes[loop].kind \in {"while", "forever"} /\ loop \in NodeId /\ name \in Names
    BY DEF LoopNode, TypeOK
  <2> HIDE DEF body, looped
  <2>4. ASSUME NEW s \in Store, NEW c, Meets(top, c, s), NEW b \in BOOLEAN,
               \A st : Stored(leg.env, st, s) =>
                 ((nodes[loop].kind = "forever" \/ Process!True(test, st)) <=> b)
        PROVE  Meets(IF b THEN body ELSE leg, Process!Advance(nodes, c), s)
    <3>1. PICK st, wr :
             /\ Process!Advance(nodes, c)
                  = Process!AtHead(nodes, Config(Strip(leg.frames), st, wr), loop, 0)
             /\ Stored(leg.env, st, s) /\ Assigns(leg.action, st, wr, s)
      BY <2>4
    <3>2. Process!Advance(nodes, c)
            = IF nodes[loop].kind = "forever" \/ Process!True(test, st)
              THEN Config(looped, st, wr) ELSE Config(Strip(leg.frames), st, wr)
      BY <2>3, <3>1, AtHeadIs DEF looped
    <3>3. (nodes[loop].kind = "forever" \/ Process!True(test, st)) <=> b
      BY <2>4, <3>1
    <3>4. CASE b
      <4>1. Process!Advance(nodes, c) = Config(Strip(body.frames), st, wr)
        BY <2>2, <3>2, <3>3, <3>4
      <4>2. Stands(body, Strip(body.frames)) /\ Stored(body.env, st, s) /\ Assigns(body.action, st, wr, s)
        BY <2>2, <3>1 DEF Stands
      <4>3. Meets(body, Process!Advance(nodes, c), s)
        BY <4>1, <4>2, MeetsIs
      <4> QED
        BY <3>4, <4>3
    <3>5. CASE ~b
      <4>1. Process!Advance(nodes, c) = Config(Strip(leg.frames), st, wr)
        BY <3>2, <3>3, <3>5
      <4>2. Stands(leg, Strip(leg.frames))
        BY DEF Stands
      <4>3. Meets(leg, Process!Advance(nodes, c), s)
        BY <3>1, <4>1, <4>2, MeetsIs
      <4> QED
        BY <3>5, <4>3
    <3> QED
      BY <3>4, <3>5
  <2>5. CASE Perpetual(leg, loop)
    <3>1. Replace(<<body>>)
      BY <2>1, <2>5 DEF LoopLegs, body
    <3>2. ASSUME NEW s \in Store, NEW c, Meets(top, c, s)
          PROVE  Meets(body, Process!Advance(nodes, c), s)
      <4>1. \A st : Stored(leg.env, st, s) =>
              ((nodes[loop].kind = "forever" \/ Process!True(test, st)) <=> TRUE)
        BY <2>5, ConstantTest DEF Perpetual, LoopTest
      <4> HIDE DEF test
      <4> QED
        BY <2>4, <3>2, <4>1
    <3> QED
      BY <2>1, <2>2, <3>1, <3>2, StepExecutes
  <2>6. CASE ~Perpetual(leg, loop) /\ NeverRuns(leg, loop)
    <3>1. Replace(<<leg>>)
      BY <2>1, <2>6 DEF LoopLegs
    <3>2. ASSUME NEW s \in Store, NEW c, Meets(top, c, s)
          PROVE  Meets(leg, Process!Advance(nodes, c), s)
      <4>1. \A st : Stored(leg.env, st, s) =>
              ((nodes[loop].kind = "forever" \/ Process!True(test, st)) <=> FALSE)
        <5>1. nodes[loop].kind # "forever" /\ IsConstant(LoopTest(leg, loop), FALSE)
          BY <2>6 DEF NeverRuns
        <5> QED
          BY <5>1, ConstantTest DEF LoopTest
      <4> HIDE DEF test
      <4> QED
        BY <2>4, <3>2, <4>1
    <3> QED
      BY <2>1, <3>1, <3>2, StepExecutes
  <2>7. CASE ~Perpetual(leg, loop) /\ ~NeverRuns(leg, loop)
    <3> DEFINE l == LoopTest(leg, loop)
    <3>1. Replace(Live(body, {l}) \o Live(leg, {Negated(l)}))
      BY <2>1, <2>7 DEF LoopLegs, body
    <3>2. nodes[loop].kind = "while" /\ ~ReadsDead(l.lhs)
      BY <2>1, <2>3, <2>7 DEF Perpetual, ReadsDeadTest
    <3>3. l \in Literal
      BY <2>3, <3>2, LoopTestType
    <3>4. ASSUME NEW s \in Store, NEW c, Meets(top, c, s)
          PROVE  Meets(IF Holds(l, s) THEN body ELSE leg, Process!Advance(nodes, c), s)
      <4>1. \A st : Stored(leg.env, st, s) =>
              ((nodes[loop].kind = "forever" \/ Process!True(test, st)) <=> Holds(l, s))
        BY <3>2, ReadsTest DEF LoopTest
      <4>2. Holds(l, s) \in BOOLEAN
        BY DEF Holds
      <4> HIDE DEF test, l
      <4> QED
        BY <2>4, <3>4, <4>1, <4>2
    <3> HIDE DEF l
    <3> QED
      BY <2>1, <2>2, <3>1, <3>3, <3>4, BranchExecutes
  <2> QED
    BY <2>5, <2>6, <2>7
<1> QED
  BY <1>1, <1>2

\* At the end of a lap the test of the while is forked, as the process tests it.
LEMMA BackEdgeExecutes == NothingDead /\ Executing /\ BackEdge => Executing'
<1> SUFFICES ASSUME NothingDead, Executing, BackEdge PROVE Executing'
  OBVIOUS
<1> DEFINE leg == [top EXCEPT !.env = Forget(@, frame.decls), !.frames = Tail(@)]
<1>1. /\ InFrame /\ Walking /\ top.cs = NoNode /\ top.frames # <<>>
      /\ frame.todo = <<>> /\ frame.loop # NoNode /\ LoopFork(leg, frame.loop)
  BY DEF BackEdge, InFrame, InLeg
<1>2. /\ leg \in PathLeg /\ leg.from = top.from /\ leg.guard = top.guard /\ leg.cs = NoNode
      /\ leg.action = top.action /\ leg.frames = Tail(top.frames) /\ LegInPlace(leg)
      /\ \A st : \A s \in Store : Stored(top.env, st, s) => Stored(leg.env, st, s)
      /\ Around[name][frame.loop] = Strip(leg.frames)
  BY <1>1, PastFrame
<1>3. TypeOK /\ top.frames \in Seq(Frame)
  BY <1>1, TopInPlace
<1>4. frame.loop \in LoopNode
  BY <1>1, <1>3, FrameFacts DEF Frame
<1> HIDE DEF leg
<1>5. ASSUME NEW s \in Store, NEW c, Meets(top, c, s)
      PROVE  \E st, wr :
               /\ Process!Advance(nodes, c)
                    = Process!AtHead(nodes, Config(Strip(leg.frames), st, wr), frame.loop, 0)
               /\ Stored(leg.env, st, s) /\ Assigns(leg.action, st, wr, s)
  <2> DEFINE fr == c.frames
             st == c.store
             wr == c.writes
  <2>1. /\ c = Config(fr, st, wr) /\ fr = Strip(top.frames)
        /\ Stored(top.env, st, s) /\ Assigns(top.action, st, wr, s)
    BY <1>1, <1>5 DEF Meets, Stands
  <2>2. fr # <<>> /\ Head(fr) = Bare(frame) /\ Tail(fr) = Strip(leg.frames)
    BY <1>1, <1>2, <1>3, <2>1, StripTail DEF frame
  <2>3. Head(fr).todo = <<>> /\ Head(fr).loop = frame.loop /\ Head(fr).left = 0
    BY <1>1, <2>2, BareFields
  <2> HIDE DEF fr, st, wr
  <2>4. Process!Advance(nodes, c) = Process!LapDone(nodes, Config(Strip(leg.frames), st, wr), Head(fr))
    BY <1>1, <2>1, <2>2, <2>3, AdvanceEnd
  <2>5. nodes[frame.loop].kind # "for"
    BY <1>4 DEF LoopNode
  <2>6. Process!Advance(nodes, c)
          = Process!AtHead(nodes, Config(Strip(leg.frames), st, wr), frame.loop, 0)
    BY <2>3, <2>4, <2>5, LapDoneIs
  <2> QED
    BY <1>2, <2>1, <2>6
<1> QED
  BY <1>1, <1>2, <1>3, <1>4, <1>5, LoopForkExecutes

\* A while or a forever is entered as the process enters it.
LEMMA EnterLoopExecutes == NothingDead /\ Executing /\ EnterLoop => Executing'
<1> SUFFICES ASSUME NothingDead, Executing, EnterLoop PROVE Executing'
  OBVIOUS
<1>1. At({"while", "forever"}) /\ LoopFork(Advanced, stmt) /\ TypeOK
  BY DEF EnterLoop, NothingDead
<1>2. /\ Walking /\ top.cs = NoNode /\ stmt \in NodeId
      /\ nodes[stmt].kind \in {"while", "forever"} /\ Advanced \in PathLeg
      /\ Advanced.from = top.from /\ Advanced.guard = top.guard
      /\ Advanced.action = top.action /\ Advanced.env = top.env /\ Advanced.cs = NoNode
  BY <1>1, AtFacts DEF At, InFrame, InLeg
<1>3. stmt \in LoopNode
  BY <1>2 DEF LoopNode
<1>4. LegInPlace(Advanced) /\ Around[name][stmt] = Strip(Advanced.frames)
  BY <1>1, AdvancedInPlace
<1>5. ASSUME NEW s \in Store, NEW c, Meets(top, c, s)
      PROVE  \E st, wr :
               /\ Process!Advance(nodes, c)
                    = Process!AtHead(nodes, Config(Strip(Advanced.frames), st, wr), stmt, 0)
               /\ Stored(Advanced.env, st, s) /\ Assigns(Advanced.action, st, wr, s)
  <2>1. PICK fr, st, wr :
           /\ c = Config(fr, st, wr)
           /\ Stored(top.env, st, s) /\ Assigns(top.action, st, wr, s)
           /\ Process!Onward(fr) = Strip(Advanced.frames)
           /\ Process!Advance(nodes, c) = Process!Statement(nodes, stmt, c)
    BY <1>1, <1>5, MeetsStatement
  <2>2. Process!Advance(nodes, c)
          = Process!AtHead(nodes, Config(Strip(Advanced.frames), st, wr), stmt, 0)
    BY <1>2, <2>1, StatementIs
  <2> QED
    BY <1>2, <2>1, <2>2
<1> QED
  BY <1>1, <1>2, <1>3, <1>4, <1>5, LoopForkExecutes

\* A break or a continue leaves the frames that the process leaves.
LEMMA JumpExecutes == NothingDead /\ Executing /\ Jump => Executing'
<1> SUFFICES ASSUME NothingDead, Executing, Jump PROVE Executing'
  OBVIOUS
<1>1. At({"break", "continue"}) /\ TypeOK
  BY DEF Jump, NothingDead
<1>2. /\ Walking /\ top.cs = NoNode /\ top.frames # <<>>
      /\ nodes[stmt].kind \in {"break", "continue"} /\ Advanced \in PathLeg
      /\ Advanced.action = top.action /\ Advanced.env = top.env
  BY <1>1, AtFacts DEF At, InFrame, InLeg
<1>3. top.frames \in Seq(Frame) /\ InPlace(top.frames) /\ DeadStays(top.env)
  BY <1>2, TopInPlace
<1>4. CASE InnermostLoop(top.frames) = {}
  BY <1>4, SameExecuting DEF Jump, Fail
<1>5. CASE InnermostLoop(top.frames) # {}
  <2>1. PICK i \in InnermostLoop(top.frames) :
          IF nodes[stmt].kind = "continue"
          THEN LoopFork(Unwound(i), top.frames[i].loop)
          ELSE /\ Replace(<<Unwound(i)>>)
               /\ UNCHANGED <<name, proc, out, walked, holdNeeded, status>>
    BY <1>5 DEF Jump, Unwound
  <2> DEFINE leg == Unwound(i)
             fs == Above(top.frames, i)
             loop == top.frames[i].loop
  <2>2. /\ leg \in PathLeg /\ loop \in LoopNode
        /\ leg.from = top.from /\ leg.guard = top.guard /\ leg.cs = NoNode
    BY <1>1, UnwoundFacts
  <2>3. leg.frames = fs /\ leg.action = top.action /\ leg.env = top.env
    BY <1>2 DEF Unwound, PathLeg, Leg, Above
  <2>4. i \in DOMAIN top.frames /\ i \in 1 .. Len(top.frames) /\ i \in 0 .. Len(top.frames)
    BY <1>3 DEF InnermostLoop
  <2>5. InPlace(fs) /\ Strip(fs) = Above(Strip(top.frames), i) /\ Around[name][loop] = Strip(fs)
    <3>1. InPlace(fs) /\ Strip(fs) = Above(Strip(top.frames), i)
      BY <1>3, <2>4, InPlaceAbove, StripAbove
    <3>2. FrameInPlace(top.frames[i], fs)
      BY <1>3, <2>4 DEF InPlace
    <3>3. loop # NoNode
      BY DEF InnermostLoop
    <3> QED
      BY <3>1, <3>2, <3>3 DEF FrameInPlace
  <2>6. LegInPlace(leg)
    BY <1>3, <2>2, <2>3, <2>5 DEF LegInPlace
  <2> HIDE DEF leg, fs
  <2>7. ASSUME NEW s \in Store, NEW c, Meets(top, c, s)
        PROVE  \E fr, st, wr :
                 /\ c = Config(fr, st, wr) /\ fr = Strip(top.frames)
                 /\ Stored(top.env, st, s) /\ Assigns(top.action, st, wr, s)
                 /\ Process!Advance(nodes, c) = Process!Statement(nodes, stmt, c)
                 /\ i \in Process!InnermostBody(fr) /\ \A j \in Process!InnermostBody(fr) : j = i
    <3>1. PICK fr, st, wr :
             /\ c = Config(fr, st, wr) /\ fr = Strip(top.frames)
             /\ Stored(top.env, st, s) /\ Assigns(top.action, st, wr, s)
             /\ Process!Advance(nodes, c) = Process!Statement(nodes, stmt, c)
      BY <1>1, <2>7, MeetsStatement
    <3>2. Process!InnermostBody(fr) = InnermostLoop(top.frames)
      BY <1>3, <3>1, StripInnermost
    <3>3. \A j \in InnermostLoop(top.frames) : j = i
      BY <1>3, OneInnermost
    <3> QED
      BY <3>1, <3>2, <3>3
  <2>8. CASE nodes[stmt].kind = "continue"
    <3>1. LoopFork(leg, loop)
      BY <2>1, <2>8 DEF leg
    <3>2. ASSUME NEW s \in Store, NEW c, Meets(top, c, s)
          PROVE  \E st, wr :
                   /\ Process!Advance(nodes, c)
                        = Process!AtHead(nodes, Config(Strip(leg.frames), st, wr), loop, 0)
                   /\ Stored(leg.env, st, s) /\ Assigns(leg.action, st, wr, s)
      <4>1. PICK fr, st, wr :
              /\ c = Config(fr, st, wr) /\ fr = Strip(top.frames)
              /\ Stored(top.env, st, s) /\ Assigns(top.action, st, wr, s)
              /\ Process!Advance(nodes, c) = Process!Statement(nodes, stmt, c)
              /\ i \in Process!InnermostBody(fr) /\ \A j \in Process!InnermostBody(fr) : j = i
        BY <2>7, <3>2
      <4>2. Process!Advance(nodes, c)
              = Process!LapDone(nodes, Config(Above(fr, i), st, wr), fr[i])
        BY <2>8, <4>1, StatementIs
      <4>3. fr[i] = Bare(top.frames[i])
        BY <1>3, <2>4, <4>1, StripSeq
      <4>4. fr[i].loop = loop /\ fr[i].left = 0
        BY <4>3, BareFields
      <4>5. nodes[fr[i].loop].kind # "for"
        BY <2>2, <4>4 DEF LoopNode
      <4>6. Process!Advance(nodes, c)
              = Process!AtHead(nodes, Config(Above(fr, i), st, wr), loop, 0)
        <5> HIDE DEF loop
        <5> QED
          BY <4>2, <4>4, <4>5, LapDoneIs
      <4>7. Above(fr, i) = Strip(leg.frames)
        BY <2>3, <2>5, <4>1
      <4> HIDE DEF loop
      <4> QED
        BY <2>3, <4>1, <4>6, <4>7
    <3> HIDE DEF loop
    <3> QED
      BY <1>1, <1>2, <2>2, <2>3, <2>5, <2>6, <3>1, <3>2, LoopForkExecutes
  <2>9. CASE nodes[stmt].kind = "break"
    <3>1. Replace(<<leg>>) /\ UNCHANGED <<name, proc, out, walked>>
      BY <2>1, <2>9 DEF leg
    <3>2. ASSUME NEW s \in Store, NEW c, Meets(top, c, s)
          PROVE  Meets(leg, Process!Advance(nodes, c), s)
      <4>1. PICK fr, st, wr :
              /\ c = Config(fr, st, wr) /\ fr = Strip(top.frames)
              /\ Stored(top.env, st, s) /\ Assigns(top.action, st, wr, s)
              /\ Process!Advance(nodes, c) = Process!Statement(nodes, stmt, c)
              /\ i \in Process!InnermostBody(fr) /\ \A j \in Process!InnermostBody(fr) : j = i
        BY <2>7, <3>2
      <4>2. Process!Advance(nodes, c) = Config(Above(fr, i), st, wr)
        BY <2>9, <4>1, StatementIs
      <4>3. Above(fr, i) = Strip(leg.frames)
        BY <2>3, <2>5, <4>1
      <4>4. Stands(leg, Strip(leg.frames)) /\ Stored(leg.env, st, s) /\ Assigns(leg.action, st, wr, s)
        BY <2>2, <2>3, <4>1 DEF Stands
      <4> QED
        BY <4>2, <4>3, <4>4, MeetsIs
    <3> QED
      BY <1>1, <1>2, <2>2, <2>6, <3>1, <3>2, StepExecutes
  <2> QED
    BY <1>2, <2>8, <2>9
<1> QED
  BY <1>4, <1>5

\* A process that is refused, and one whose walk is over, leave the paths as they
\* are.
LEMMA RefusalExecutes == Executing /\ (DeadTemporary \/ OutputLeft \/ Finish) => Executing'
BY SameExecuting DEF DeadTemporary, OutputLeft, Finish, Fail

\* The arm a case takes.
LEMMA ArmIs ==
  ASSUME NEW d, NEW st, DOMAIN d.tests \in SUBSET Nat
  PROVE  /\ (\A j \in DOMAIN d.tests \ {d.dflt} : ~Process!True(d.tests[j], st))
            => Process!ArmOf(d, st) = d.dflt
         /\ \A k \in DOMAIN d.tests \ {d.dflt} :
              /\ Process!True(d.tests[k], st)
              /\ \A j \in DOMAIN d.tests \ {d.dflt} : j < k => ~Process!True(d.tests[j], st)
              => Process!ArmOf(d, st) = k
<1> DEFINE matching == {k \in DOMAIN d.tests : k # d.dflt /\ Process!True(d.tests[k], st)}
<1>1. Process!ArmOf(d, st) = IF matching = {} THEN d.dflt
                             ELSE CHOOSE k \in matching : \A j \in matching : k <= j
  BY DEF Process!ArmOf
<1>2. ASSUME \A j \in DOMAIN d.tests \ {d.dflt} : ~Process!True(d.tests[j], st)
      PROVE  Process!ArmOf(d, st) = d.dflt
  BY <1>1, <1>2
<1>3. ASSUME NEW k \in DOMAIN d.tests \ {d.dflt}, Process!True(d.tests[k], st),
             \A j \in DOMAIN d.tests \ {d.dflt} : j < k => ~Process!True(d.tests[j], st)
      PROVE  Process!ArmOf(d, st) = k
  <2>1. k \in matching /\ matching \in SUBSET Nat /\ \A j \in matching : ~(j < k)
    BY <1>3
  <2> HIDE DEF matching
  <2>2. \A j \in matching : k <= j
    BY <2>1
  <2>3. \A i \in matching : (\A j \in matching : i <= j) => i = k
    BY <2>1, <2>2
  <2> QED
    BY <1>1, <2>1, <2>2, <2>3
<1> QED
  BY <1>2, <1>3

\* What an arm is compared with is what the thread compares it with.
LEMMA MatchReads ==
  ASSUME NothingDead, LabelsStand, Executing, Walking, top.cs # NoNode,
         NEW s \in Store, NEW st \in Store, NEW wr, Stored(top.env, st, s),
         Assigns(top.action, st, wr, s), NEW k \in Labels(top.cs)
  PROVE  Holds(Match(top, k), s) <=> Process!True(nodes[top.cs].tests[k], st)
<1> DEFINE t == nodes[top.cs].tests[k]
<1>1. TypeOK /\ top \in PathLeg /\ CleanLeg(top)
  BY TopInPlace
<1>2. top.cs \in NodeId /\ name \in Names /\ nodes[top.cs].kind \in {"case", "reverse"}
  BY <1>1 DEF PathLeg, Leg, CaseNode, TypeOK
<1>3. ~ReadsDead(Match(top, k).lhs)
  BY <1>1 DEF CleanLeg
<1>4. CASE nodes[top.cs].kind = "case"
  <2>1. Match(top, k) = SubstTest(t, top.env)
    BY <1>4 DEF Match
  <2> QED
    BY <1>3, <2>1, ReadsTest
<1>5. CASE nodes[top.cs].kind = "reverse"
  <2> DEFINE x == SubstExpr(t.lhs, NoEnv)
  <2>1. Match(top, k) = SubstTest(t, NoEnv)
    BY <1>5 DEF Match
  <2>2. \A v \in AssignedAtOnce(name) : ~DependsOn(x, v)
    BY <1>2, <1>5 DEF LabelsStand, nodes, Labels
  <2>3. Difference(s, st) \subseteq AssignedAtOnce(name)
    BY DEF Difference, Assigns
  <2> DEFINE V == AssignedAtOnce(name)
  <2>4. x[s] = x[st]
    <3> HIDE DEF x, V
    <3>1. \A v \in V : ~DependsOn(x, v)
      BY <2>2 DEF V
    <3>2. Difference(s, st) \subseteq V
      BY <2>3 DEF V
    <3> QED
      BY <3>1, <3>2, ReadsNone
  <2>5. x[s] = t.lhs[s] /\ x[st] = t.lhs[st]
    BY DEF SubstExpr, NoEnv
  <2>6. Match(top, k).lhs = x /\ Match(top, k).rhs = t.rhs /\ Match(top, k).eq = t.eq
    BY <2>1 DEF SubstTest
  <2> HIDE DEF x, t
  <2>7. (Match(top, k).lhs[s] = Match(top, k).rhs) <=> (t.lhs[st] = t.rhs)
    BY <2>4, <2>5, <2>6
  <2>8. Holds(Match(top, k), s) <=> Process!True(t, st)
    BY <2>6, <2>7 DEF Holds, Process!True
  <2> QED
    BY <2>8 DEF t
<1> QED
  BY <1>2, <1>4, <1>5

\* The walk starts on the arms of a case while the process is still at it.
LEMMA CaseBeginExecutes == NothingDead /\ Executing /\ CaseBegin => Executing'
<1> SUFFICES ASSUME NothingDead, Executing, CaseBegin PROVE Executing'
  OBVIOUS
<1> DEFINE leg == [Advanced EXCEPT !.cs = stmt, !.arm = 1]
<1>1. /\ At({"case", "reverse"}) /\ UNCHANGED <<name, proc, out, walked>>
      /\ Replace(<<leg>>) /\ TypeOK
  BY DEF CaseBegin, NothingDead
<1>2. /\ Walking /\ top.cs = NoNode /\ name \in Names /\ stmt \in NodeId
      /\ nodes[stmt].kind \in {"case", "reverse"} /\ Advanced \in PathLeg
      /\ Advanced.from = top.from /\ Advanced.guard = top.guard
      /\ Advanced.action = top.action /\ Advanced.env = top.env
  BY <1>1, AtFacts DEF At, InFrame, InLeg
<1>3. /\ leg.from = top.from /\ leg.guard = top.guard /\ leg.action = top.action
      /\ leg.env = top.env /\ leg.frames = Advanced.frames /\ leg.cs = stmt /\ leg.arm = 1
  BY <1>2 DEF PathLeg, Leg
<1>4. leg \in PathLeg
  <2>1. Len(nodes[stmt].kids) \in Nat
    BY <1>2, NodeFacts, LenProperties
  <2>2. stmt \in CaseNode /\ 1 \in 1 .. Len(nodes[stmt].kids) + 1
    BY <1>2, <2>1 DEF CaseNode
  <2> QED
    BY <1>2, <2>2 DEF PathLeg, Leg
<1> HIDE DEF leg
<1>5. stmt # NoNode
  BY <1>2, ProgramAssumption
<1>6. LegInPlace(leg)
  <2>1. LegInPlace(Advanced) /\ Around[name][stmt] = Strip(Advanced.frames)
    BY <1>1, AdvancedInPlace
  <2> QED
    BY <1>2, <1>3, <2>1 DEF LegInPlace
<1>7. /\ DOMAIN nodes[stmt].tests = 1 .. Len(nodes[stmt].tests)
      /\ nodes[stmt].dflt \in Nat
  BY <1>2, NodeFacts
<1>8. \A k \in Labels(stmt) : k >= 1
  BY <1>7 DEF Labels
<1>9. \A s : Claims(leg, s) <=> Claims(top, s)
  <2>1. \A s : Claims(top, s) <=> Satisfies(s, top.guard)
    BY <1>2 DEF Claims
  <2>2. ASSUME NEW s PROVE Claims(leg, s) <=> Satisfies(s, top.guard)
    <3>1. CASE \E k \in Labels(stmt) : Holds(Match(leg, k), s)
      BY <1>3, <1>8, <3>1 DEF Claims
    <3>2. CASE \A k \in Labels(stmt) : ~Holds(Match(leg, k), s)
      <4>1. nodes[stmt].dflt = 0 \/ nodes[stmt].dflt >= 1
        BY <1>7
      <4> QED
        BY <1>3, <3>2, <4>1 DEF Claims
    <3> QED
      BY <3>1, <3>2
  <2> QED
    BY <2>1, <2>2
<1>10. ASSUME NEW s \in Store, Owns(top, top.from, s) PROVE Owns(leg, top.from, s)
  <2>1. ASSUME NEW c, Meets(top, c, s) PROVE Meets(leg, c, s)
    <3>1. PICK fr, st, wr :
             /\ c = Config(fr, st, wr)
             /\ Stored(top.env, st, s) /\ Assigns(top.action, st, wr, s)
             /\ Process!Onward(fr) = Strip(Advanced.frames)
             /\ fr # <<>> /\ Head(fr).todo # <<>> /\ Head(Head(fr).todo) = stmt
      BY <1>1, <2>1, MeetsStatement
    <3>2. Stands(leg, fr) /\ Stored(leg.env, st, s) /\ Assigns(leg.action, st, wr, s)
      BY <1>3, <1>5, <3>1 DEF Stands
    <3> QED
      BY <3>1, <3>2, MeetsIs
  <2>2. Reaches(top.from, s, leg)
    BY <1>10, <2>1 DEF Owns, Reaches
  <2>3. PastNone(leg, s)
    <3>1. \A k \in Labels(stmt) : ~(k < 1)
      BY <1>7 DEF Labels
    <3> QED
      BY <1>3, <3>1 DEF PastNone
  <2> QED
    BY <1>3, <1>9, <1>10, <2>2, <2>3 DEF Owns
<1>11. <<leg>> \in Seq(PathLeg) /\ DOMAIN <<leg>> = {1} /\ <<leg>>[1] = leg
  BY <1>4, OneSeq
<1>12. \A s \in Store : Claims(top, s) \/ Silent(<<leg>>, top.from, s)
  BY <1>9, OneFollows
<1>13. \A s \in Store : Exact(top.from, s) /\ Owns(top, top.from, s) => Follows(<<leg>>, top.from, s)
  BY <1>10, OneFollows
<1> QED
  BY <1>1, <1>2, <1>3, <1>6, <1>11, <1>12, <1>13, KeepsExecuting

\* At a case whose every earlier arm fails, the thread takes the arm that the
\* store of the edge decides.
LEMMA MeetsCase ==
  ASSUME NothingDead, LabelsStand, Executing, Walking, top.cs # NoNode,
         NEW s \in Store, NEW c, Meets(top, c, s)
  PROVE  \E fr, st, wr :
           /\ c = Config(fr, st, wr)
           /\ Stored(top.env, st, s) /\ Assigns(top.action, st, wr, s)
           /\ (\A j \in Labels(top.cs) : ~Holds(Match(top, j), s)) /\ nodes[top.cs].dflt = 0 =>
                Process!Advance(nodes, c) = Config(Strip(top.frames), st, wr)
           /\ \A k \in 1 .. Len(nodes[top.cs].kids) :
                \/ /\ k \in Labels(top.cs) /\ Holds(Match(top, k), s)
                   /\ \A j \in Labels(top.cs) : j < k => ~Holds(Match(top, j), s)
                \/ k = nodes[top.cs].dflt /\ \A j \in Labels(top.cs) : ~Holds(Match(top, j), s)
                => Process!Advance(nodes, c)
                     = Config(Process!Pushed(nodes, Strip(top.frames), nodes[top.cs].kids[k]), st, wr)
<1> DEFINE fr == c.frames
           st == c.store
           wr == c.writes
           d  == nodes[top.cs]
<1>1. TypeOK /\ top \in PathLeg
  BY TopInPlace
<1>2. top.cs \in NodeId /\ name \in Names /\ d.kind \in {"case", "reverse"}
  BY <1>1 DEF PathLeg, Leg, CaseNode, TypeOK
<1>3. /\ c = Config(fr, st, wr)
      /\ Stored(top.env, st, s) /\ Assigns(top.action, st, wr, s) /\ st \in Store
      /\ fr # <<>> /\ Head(fr).todo # <<>> /\ Head(Head(fr).todo) = top.cs
      /\ Process!Onward(fr) = Strip(top.frames)
  BY DEF Meets, Stands, Stored
<1>4. DOMAIN d.tests \in SUBSET Nat
  <2>1. d.tests \in Seq(Test)
    BY <1>2, NodeFacts
  <2> QED
    BY <2>1
<1>5. Process!Advance(nodes, c) = Process!Statement(nodes, top.cs, c)
  <2>1. c.frames = fr
    OBVIOUS
  <2> HIDE DEF fr
  <2> QED
    BY <1>2, <1>3, <2>1, AdvanceStatement
<1> HIDE DEF fr, st, wr
<1>6. Process!Advance(nodes, c)
        = Config(IF Process!ArmOf(d, st) = 0 THEN Strip(top.frames)
                 ELSE Process!Pushed(nodes, Strip(top.frames), d.kids[Process!ArmOf(d, st)]), st, wr)
  BY <1>2, <1>3, <1>5, StatementIs
<1>7. \A j \in Labels(top.cs) : Holds(Match(top, j), s) <=> Process!True(d.tests[j], st)
  BY <1>3, MatchReads
<1>8. Labels(top.cs) = DOMAIN d.tests \ {d.dflt}
  BY DEF Labels
<1> HIDE DEF d
<1>9. ASSUME \A j \in Labels(top.cs) : ~Holds(Match(top, j), s) PROVE Process!ArmOf(d, st) = d.dflt
  BY <1>4, <1>7, <1>8, <1>9, ArmIs
<1>10. ASSUME NEW k \in Labels(top.cs), Holds(Match(top, k), s),
              \A j \in Labels(top.cs) : j < k => ~Holds(Match(top, j), s)
       PROVE  Process!ArmOf(d, st) = k
  BY <1>4, <1>7, <1>8, <1>10, ArmIs
<1>11. ASSUME \A j \in Labels(top.cs) : ~Holds(Match(top, j), s), d.dflt = 0
       PROVE  Process!Advance(nodes, c) = Config(Strip(top.frames), st, wr)
  BY <1>6, <1>9, <1>11
<1>12. ASSUME NEW k \in 1 .. Len(d.kids),
              \/ /\ k \in Labels(top.cs) /\ Holds(Match(top, k), s)
                 /\ \A j \in Labels(top.cs) : j < k => ~Holds(Match(top, j), s)
              \/ k = d.dflt /\ \A j \in Labels(top.cs) : ~Holds(Match(top, j), s)
       PROVE  Process!Advance(nodes, c)
                = Config(Process!Pushed(nodes, Strip(top.frames), d.kids[k]), st, wr)
  <2>1. Process!ArmOf(d, st) = k
    BY <1>9, <1>10, <1>12
  <2>2. k # 0
    OBVIOUS
  <2> QED
    BY <1>6, <2>1, <2>2
<1> QED
  BY <1>3, <1>11, <1>12 DEF d

\* When the arms are done, the default is what the process takes.
LEMMA CaseEndExecutes == NothingDead /\ LabelsStand /\ Executing /\ CaseEnd => Executing'
<1> SUFFICES ASSUME NothingDead, LabelsStand, Executing, CaseEnd PROVE Executing'
  OBVIOUS
<1> DEFINE leg == OutOfCase(top)
           none == NoMatch(top)
           legs == IF nodes[top.cs].dflt = 0 THEN Live(leg, none) ELSE <<>>
<1>1. /\ Walking /\ top.cs # NoNode /\ top.arm > Len(nodes[top.cs].kids)
      /\ Replace(legs) /\ UNCHANGED <<name, proc, out, walked>>
  BY DEF CaseEnd
<1>2. TypeOK /\ top \in PathLeg /\ InPlace(top.frames) /\ DeadStays(top.env) /\ name \in Names
  BY <1>1, TopInPlace DEF TypeOK
<1>3. /\ leg \in PathLeg /\ leg.cs = NoNode /\ leg.from = top.from /\ leg.guard = top.guard
      /\ leg.frames = top.frames /\ leg.env = top.env /\ leg.action = top.action
  BY <1>2, OutOfCaseType DEF OutOfCase, PathLeg, Leg
<1>4. none \in SUBSET Literal
  BY <1>1, <1>2, NoMatchType
<1>5. LegInPlace(leg)
  BY <1>2, <1>3 DEF LegInPlace
<1>6. /\ Len(nodes[top.cs].kids) \in Nat /\ top.arm \in Nat /\ nodes[top.cs].dflt \in 0 .. Len(nodes[top.cs].kids)
      /\ Labels(top.cs) \subseteq 1 .. Len(nodes[top.cs].kids)
  <2>1. top.cs \in NodeId /\ nodes[top.cs].kind \in {"case", "reverse"}
    BY <1>1, <1>2 DEF PathLeg, Leg, CaseNode
  <2>2. /\ nodes[top.cs].kids \in Seq(NodeRef) /\ nodes[top.cs].tests \in Seq(Test)
        /\ Len(nodes[top.cs].tests) = Len(nodes[top.cs].kids)
        /\ nodes[top.cs].dflt \in 0 .. Len(nodes[top.cs].kids)
    BY <1>2, <2>1, NodeFacts
  <2>3. top.arm \in Nat
    BY <1>2 DEF PathLeg, Leg
  <2> QED
    BY <2>2, <2>3 DEF Labels
<1> HIDE DEF leg
<1>7. \A s : Satisfies(s, none) <=> \A k \in Labels(top.cs) : ~Holds(Match(top, k), s)
  <2>1. \A k \in Labels(top.cs) : Match(top, k) \in Literal
    BY <1>1, <1>2, MatchType DEF Labels
  <2>2. \A k \in Labels(top.cs) : \A s : Holds(Negated(Match(top, k)), s) <=> ~Holds(Match(top, k), s)
    BY <2>1, NegatedHolds
  <2> QED
    BY <2>2 DEF NoMatch, Satisfies
<1> HIDE DEF none
<1>8. \A s : Claims(top, s) <=> /\ Satisfies(s, top.guard) /\ Satisfies(s, none)
                                /\ nodes[top.cs].dflt = 0
  <2>1. \A k \in Labels(top.cs) : ~(k >= top.arm)
    BY <1>1, <1>6
  <2>2. ~(nodes[top.cs].dflt >= top.arm)
    BY <1>1, <1>6
  <2> QED
    BY <1>1, <1>7, <2>1, <2>2 DEF Claims
<1>9. legs \in Seq(PathLeg)
  <2>1. Live(leg, none) \in Seq(PathLeg)
    BY <1>3, <1>4, LiveType
  <2>2. <<>> \in Seq(PathLeg)
    OBVIOUS
  <2> QED
    BY <2>1, <2>2
<1>10. Fit(legs)
  <2>1. Fit(Live(leg, none))
    BY <1>3, <1>4, <1>5, FitLive
  <2>2. Fit(<<>>)
    BY DEF Fit
  <2> QED
    BY <2>1, <2>2
<1>11. ASSUME NEW s \in Store PROVE Claims(top, s) \/ Silent(legs, top.from, s)
  <2> SUFFICES ASSUME ~Claims(top, s) PROVE Silent(legs, top.from, s)
    OBVIOUS
  <2>1. CASE nodes[top.cs].dflt = 0
    <3>1. ~(Satisfies(s, leg.guard) /\ Satisfies(s, none))
      BY <1>3, <1>8, <2>1
    <3>2. Silent(Live(leg, none), top.from, s)
      BY <1>3, <1>4, <3>1, LiveFollows
    <3> QED
      BY <2>1, <3>2
  <2>2. CASE nodes[top.cs].dflt # 0
    BY <2>2 DEF Silent
  <2> QED
    BY <2>1, <2>2
<1>12. ASSUME NEW s \in Store, Owns(top, top.from, s) PROVE Follows(legs, top.from, s)
  <2>1. Claims(top, s) /\ Reaches(top.from, s, top)
    BY <1>12 DEF Owns
  <2>2. /\ Satisfies(s, top.guard) /\ Satisfies(s, none) /\ nodes[top.cs].dflt = 0
        /\ \A k \in Labels(top.cs) : ~Holds(Match(top, k), s)
    BY <1>7, <1>8, <2>1
  <2>3. ASSUME NEW c, Meets(top, c, s) PROVE Meets(leg, Process!Advance(nodes, c), s)
    <3>1. PICK fr, st, wr :
            /\ Stored(top.env, st, s) /\ Assigns(top.action, st, wr, s)
            /\ (\A j \in Labels(top.cs) : ~Holds(Match(top, j), s)) /\ nodes[top.cs].dflt = 0 =>
                 Process!Advance(nodes, c) = Config(Strip(top.frames), st, wr)
      BY <1>1, <2>3, MeetsCase
    <3>2. Process!Advance(nodes, c) = Config(Strip(leg.frames), st, wr)
      BY <1>3, <2>2, <3>1
    <3>3. Stands(leg, Strip(leg.frames)) /\ Stored(leg.env, st, s) /\ Assigns(leg.action, st, wr, s)
      BY <1>3, <3>1 DEF Stands
    <3> QED
      BY <3>2, <3>3, MeetsIs
  <2>4. Reaches(top.from, s, leg)
    BY <2>1, <2>3, ReachStep
  <2>5. Follows(Live(leg, none), top.from, s)
    BY <1>3, <1>4, <2>2, <2>4, LiveFollows
  <2> QED
    BY <2>2, <2>5
<1> HIDE DEF legs
<1> QED
  BY <1>1, <1>2, <1>9, <1>10, <1>11, <1>12, KeepsExecuting DEF Fit

\* An arm the walk tries is the one the process takes when the store satisfies
\* its guard, and none of the arms before it.
LEMMA CaseArmExecutes == NothingDead /\ LabelsStand /\ Executing /\ CaseArm => Executing'
<1> SUFFICES ASSUME NothingDead, LabelsStand, Executing, CaseArm PROVE Executing'
  OBVIOUS
<1> DEFINE k == top.arm
           cs == top.cs
           body == CaseLeg
           next == [top EXCEPT !.arm = @ + 1]
           extra == ArmTest(top, k)
           A == Live(body, extra)
           M(j, s) == Holds(Match(top, j), s)
<1>0. TypeOK /\ UNCHANGED <<name, proc, out, walked>>
  BY DEF NothingDead, CaseArm
<1>1. /\ Walking /\ name \in Names /\ top \in PathLeg /\ cs # NoNode
      /\ k \in 1 .. Len(nodes[cs].kids) /\ extra \in SUBSET Literal
      /\ body \in PathLeg /\ body.from = top.from /\ body.guard = top.guard /\ body.cs = NoNode
      /\ next \in PathLeg /\ Replace(A \o <<next>>)
  BY <1>0, CaseLegFacts
<1>2. /\ LegInPlace(top) /\ InPlace(top.frames) /\ DeadStays(top.env) /\ top.frames \in Seq(Frame)
      /\ Around[name][cs] = Strip(top.frames)
  BY <1>1, TopInPlace DEF LegInPlace
<1>3. /\ body.action = top.action /\ body.env = top.env
      /\ body.frames = PushFrame(top.frames, nodes[cs].kids[k], NoNode)
  BY <1>1 DEF CaseLeg, OutOfCase, PathLeg, Leg
<1>4. /\ next.from = top.from /\ next.guard = top.guard /\ next.cs = cs /\ next.arm = k + 1
      /\ next.action = top.action /\ next.env = top.env /\ next.frames = top.frames
  BY <1>1 DEF PathLeg, Leg
<1>5. cs \in NodeId /\ nodes[cs].kind \in {"case", "reverse"} /\ k \in DOMAIN nodes[cs].kids
  <2>1. cs \in NodeId /\ nodes[cs].kind \in {"case", "reverse"}
    BY <1>1 DEF PathLeg, Leg, CaseNode
  <2>2. nodes[cs].kids \in Seq(NodeRef)
    BY <1>1, <2>1, NodeFacts
  <2> QED
    BY <1>1, <2>1, <2>2
<1>6. /\ Len(nodes[cs].kids) \in Nat /\ nodes[cs].dflt \in 0 .. Len(nodes[cs].kids)
      /\ Labels(cs) \subseteq 1 .. Len(nodes[cs].kids)
      /\ k \in Labels(cs) <=> k # nodes[cs].dflt
  <2>2. /\ nodes[cs].kids \in Seq(NodeRef) /\ nodes[cs].tests \in Seq(Test)
        /\ Len(nodes[cs].tests) = Len(nodes[cs].kids)
        /\ nodes[cs].dflt \in 0 .. Len(nodes[cs].kids)
    BY <1>1, <1>5, NodeFacts
  <2>3. /\ Len(nodes[cs].kids) \in Nat /\ DOMAIN nodes[cs].tests = 1 .. Len(nodes[cs].kids)
    BY <2>2
  <2>4. Labels(cs) = (1 .. Len(nodes[cs].kids)) \ {nodes[cs].dflt}
    BY <2>3 DEF Labels
  <2>5. k \in 1 .. Len(nodes[cs].kids)
    BY <1>1
  <2> HIDE DEF k, cs, body, next, extra, A, M
  <2>6. k \in Labels(cs) <=> k # nodes[cs].dflt
    BY <2>4, <2>5
  <2> QED
    BY <2>2, <2>3, <2>4, <2>6
<1>7. InPlace(body.frames)
  BY <1>1, <1>2, <1>3, <1>5, KidPlaced
<1>8. LegInPlace(body) /\ LegInPlace(next)
  BY <1>1, <1>2, <1>3, <1>4, <1>7 DEF LegInPlace
<1>9. Strip(body.frames) = Process!Pushed(nodes, Strip(top.frames), nodes[cs].kids[k])
  BY <1>2, <1>3, StripPushed
<1> HIDE DEF body, next
<1>10. \A s : Satisfies(s, extra) <=> IF k \in Labels(cs) THEN M(k, s)
                                      ELSE \A j \in Labels(cs) : ~M(j, s)
  <2>1. \A j \in Labels(cs) : Match(top, j) \in Literal
    BY <1>1, MatchType DEF Labels
  <2>2. \A j \in Labels(cs) : \A s : Holds(Negated(Match(top, j)), s) <=> ~Holds(Match(top, j), s)
    BY <2>1, NegatedHolds
  <2> QED
    BY <1>6, <2>2 DEF ArmTest, NoMatch, Satisfies
<1>11. \A j, s : Holds(Match(next, j), s) <=> M(j, s)
  BY <1>4 DEF Match
<1> HIDE DEF extra, M
<1>12. \A s : Claims(top, s) <=>
         /\ Satisfies(s, top.guard)
         /\ \/ \E j \in Labels(cs) : j >= k /\ M(j, s)
            \/ (\A j \in Labels(cs) : ~M(j, s)) /\ (nodes[cs].dflt = 0 \/ nodes[cs].dflt >= k)
  BY <1>1 DEF Claims, M
<1>13. \A s : Claims(next, s) <=>
         /\ Satisfies(s, top.guard)
         /\ \/ \E j \in Labels(cs) : j >= k + 1 /\ M(j, s)
            \/ (\A j \in Labels(cs) : ~M(j, s)) /\ (nodes[cs].dflt = 0 \/ nodes[cs].dflt >= k + 1)
  BY <1>1, <1>4, <1>11 DEF Claims
<1>14. /\ \A s : Claims(next, s) => Claims(top, s)
       /\ \A s : Claims(top, s) /\ ~Satisfies(s, extra) => Claims(next, s)
       /\ \A s : Satisfies(s, top.guard) /\ Satisfies(s, extra) => Claims(top, s)
  <2>1. \A j \in Labels(cs) : j \in Nat
    BY <1>6
  <2>2. k \in Nat /\ nodes[cs].dflt \in Nat
    BY <1>1, <1>6
  <2>3. \A s : Claims(next, s) => Claims(top, s)
    BY <1>12, <1>13, <2>1, <2>2
  <2>4. ASSUME NEW s, Claims(top, s), ~Satisfies(s, extra) PROVE Claims(next, s)
    <3>1. CASE k \in Labels(cs)
      <4>1. ~M(k, s) /\ k # nodes[cs].dflt
        BY <1>6, <1>10, <2>4, <3>1
      <4> QED
        BY <1>12, <1>13, <2>1, <2>2, <2>4, <4>1
    <3>2. CASE k \notin Labels(cs)
      <4>1. k = nodes[cs].dflt /\ \E j \in Labels(cs) : M(j, s)
        BY <1>6, <1>10, <2>4, <3>2
      <4>2. PICK j \in Labels(cs) : j >= k /\ M(j, s)
        BY <1>12, <2>4, <4>1
      <4>3. j >= k + 1
        BY <2>1, <2>2, <3>2, <4>2
      <4> QED
        BY <1>12, <1>13, <2>4, <4>2, <4>3
    <3> QED
      BY <3>1, <3>2
  <2>5. ASSUME NEW s, Satisfies(s, top.guard), Satisfies(s, extra) PROVE Claims(top, s)
    BY <1>6, <1>10, <1>12, <2>2, <2>5
  <2> QED
    BY <2>3, <2>4, <2>5
<1>15. /\ A \in Seq(PathLeg) /\ <<next>> \in Seq(PathLeg) /\ Fit(A) /\ Fit(<<next>>)
  BY <1>1, <1>4, <1>8, LiveType, FitLive, FitOne, OneSeq
<1>16. A \o <<next>> \in Seq(PathLeg) /\ Fit(A \o <<next>>)
  <2> HIDE DEF A
  <2> QED
    BY <1>15, FitConcat, ConcatProperties
<1>17. ASSUME NEW s \in Store PROVE Claims(top, s) \/ Silent(A \o <<next>>, top.from, s)
  <2> SUFFICES ASSUME ~Claims(top, s) PROVE Silent(A \o <<next>>, top.from, s)
    OBVIOUS
  <2>1. ~(Satisfies(s, body.guard) /\ Satisfies(s, extra)) /\ ~Claims(next, s)
    BY <1>1, <1>14
  <2>2. Silent(A, top.from, s) /\ Silent(<<next>>, top.from, s)
    BY <1>1, <2>1, LiveFollows, OneFollows
  <2> HIDE DEF A
  <2> QED
    BY <1>15, <2>2, ConcatFollows
<1>18. ASSUME NEW s \in Store, Owns(top, top.from, s) PROVE Follows(A \o <<next>>, top.from, s)
  <2>1. /\ Claims(top, s) /\ Reaches(top.from, s, top) /\ Satisfies(s, top.guard)
        /\ \A j \in Labels(cs) : j < k => ~M(j, s)
    BY <1>1, <1>12, <1>18 DEF Owns, PastNone, M
  <2>2. CASE Satisfies(s, extra)
    <3>1. \/ /\ k \in Labels(cs) /\ M(k, s)
             /\ \A j \in Labels(cs) : j < k => ~M(j, s)
          \/ k = nodes[cs].dflt /\ \A j \in Labels(cs) : ~M(j, s)
      BY <1>6, <1>10, <2>1, <2>2
    <3>2. ASSUME NEW c, Meets(top, c, s) PROVE Meets(body, Process!Advance(nodes, c), s)
      <4>1. PICK fr, st, wr :
              /\ Stored(top.env, st, s) /\ Assigns(top.action, st, wr, s)
              /\ \A i \in 1 .. Len(nodes[top.cs].kids) :
                   \/ /\ i \in Labels(top.cs) /\ Holds(Match(top, i), s)
                      /\ \A j \in Labels(top.cs) : j < i => ~Holds(Match(top, j), s)
                   \/ i = nodes[top.cs].dflt /\ \A j \in Labels(top.cs) : ~Holds(Match(top, j), s)
                   => Process!Advance(nodes, c)
                        = Config(Process!Pushed(nodes, Strip(top.frames), nodes[top.cs].kids[i]), st, wr)
        BY <1>1, <3>2, MeetsCase
      <4>2. Process!Advance(nodes, c)
              = Config(Process!Pushed(nodes, Strip(top.frames), nodes[top.cs].kids[k]), st, wr)
        BY <1>1, <3>1, <4>1 DEF M
      <4>3. /\ Stands(body, Strip(body.frames)) /\ Stored(body.env, st, s)
            /\ Assigns(body.action, st, wr, s)
        BY <1>1, <1>3, <4>1 DEF Stands
      <4> QED
        BY <1>9, <4>2, <4>3, MeetsIs
    <3>3. Reaches(top.from, s, body)
      BY <2>1, <3>2, ReachStep
    <3>4. Follows(A, top.from, s)
      BY <1>1, <2>1, <2>2, <3>3, LiveFollows
    <3> HIDE DEF A
    <3> QED
      BY <1>15, <3>4, ConcatFollows
  <2>3. CASE ~Satisfies(s, extra)
    <3>1. Claims(next, s)
      BY <1>14, <2>1, <2>3
    <3>2. \A c : Meets(top, c, s) => Meets(next, c, s)
      BY <1>4 DEF Meets, Stands
    <3>3. Reaches(top.from, s, next)
      BY <2>1, <3>2 DEF Reaches
    <3>4. PastNone(next, s)
      <4>1. ASSUME NEW j \in Labels(cs), j < k + 1 PROVE ~M(j, s)
        <5>1. j \in Nat /\ k \in Nat
          BY <1>1, <1>6
        <5>2. CASE j < k
          BY <2>1, <5>2
        <5>3. CASE j = k
          BY <1>10, <2>3, <4>1, <5>3
        <5> QED
          BY <4>1, <5>1, <5>2, <5>3
      <4> QED
        BY <1>4, <1>11, <4>1 DEF PastNone
    <3>5. Follows(<<next>>, top.from, s)
      BY <1>4, <3>1, <3>3, <3>4, OneFollows DEF Owns
    <3>6. Silent(A, top.from, s)
      BY <1>1, <2>3, LiveFollows
    <3> HIDE DEF A
    <3> QED
      BY <1>15, <3>5, <3>6, ConcatFollows
  <2> QED
    BY <2>2, <2>3
<1> HIDE DEF A
<1> QED
  BY <1>0, <1>1, <1>16, <1>17, <1>18, KeepsExecuting DEF Fit

-----------------------------------------------------------------------------
(* The end of a path *)

\* The path the current leg has walked to its end.
Walked(next) == [guard |-> top.guard, action |-> top.action, next |-> next,
                 decode |-> Snapshot(top)]

\* A recorded path comes after those recorded from its source before it.
LEMMA RecordFacts ==
  ASSUME TypeOK, Walking, NEW next, Record(next)
  PROVE  /\ top.from \in Source
         /\ \A src \in Source : src # top.from => out'[src] = out[src]
         /\ LET n == Len(out[top.from]) IN
            /\ n \in Nat /\ DOMAIN out[top.from] = 1 .. n /\ DOMAIN out'[top.from] = 1 .. n + 1
            /\ \A i \in 1 .. n : out'[top.from][i] = out[top.from][i]
            /\ out'[top.from][n + 1] = Walked(next)
<1> DEFINE t == Walked(next)
<1>1. top.from \in Source
  BY TopFacts DEF PathLeg, Leg
<1>2. out[top.from] \in Seq(Transition) /\ out \in [Source -> Seq(Transition)]
  BY <1>1 DEF TypeOK
<1>3. out' = [out EXCEPT ![top.from] = Append(out[top.from], t)]
  BY DEF Record, Walked
<1>4. /\ DOMAIN Append(out[top.from], t) = 1 .. Len(out[top.from]) + 1
      /\ \A i \in 1 .. Len(out[top.from]) : Append(out[top.from], t)[i] = out[top.from][i]
      /\ Append(out[top.from], t)[Len(out[top.from]) + 1] = t
  <2> DEFINE S == Transition \cup {t}
  <2>1. out[top.from] \in Seq(S) /\ t \in S
    BY <1>2, SeqMonotonic
  <2> HIDE DEF S, t
  <2> QED
    BY <2>1, AppendProperties, LenProperties
<1>5. Len(out[top.from]) \in Nat /\ DOMAIN out[top.from] = 1 .. Len(out[top.from])
  BY <1>2, LenProperties
<1> HIDE DEF t
<1>6. out'[top.from] = Append(out[top.from], t) /\ \A src \in Source : src # top.from => out'[src] = out[src]
  BY <1>1, <1>2, <1>3
<1> QED
  BY <1>1, <1>4, <1>5, <1>6 DEF t

\* A path recorded keeps every path, if the thread ends its step by it where it
\* came to the leg.
LEMMA RecordPaths ==
  ASSUME TypeOK, PathsExecute, Walking, top.cs = NoNode, NEW next, Record(next),
         NEW legs \in Seq(PathLeg), Replace(legs), UNCHANGED <<name, proc>>,
         \A i \in DOMAIN legs : legs[i].from \notin walked \cup {Entry},
         \A s \in Store : Exact(top.from, s) /\ Owns(top, top.from, s)
                            => Ends(top.from, s, Walked(next)),
         NEW src \in walked \cup {Entry}, NEW s \in Store, Exact(src, s)
  PROVE  Followed(src, s)'
<1>1. Followed(src, s)
  BY DEF PathsExecute
<1> DEFINE n == Len(out[top.from])
<1>2. /\ top.from \in Source
      /\ \A w \in Source : w # top.from => out'[w] = out[w]
      /\ n \in Nat /\ DOMAIN out[top.from] = 1 .. n /\ DOMAIN out'[top.from] = 1 .. n + 1
      /\ \A i \in 1 .. n : out'[top.from][i] = out[top.from][i]
      /\ out'[top.from][n + 1] = Walked(next)
  BY RecordFacts
<1>3. src \in Source
  BY DEF TypeOK, Source
<1>4. \A t : Ends(src, s, t)' <=> Ends(src, s, t)
  <2>1. ASSUME NEW t PROVE Ends(src, s, t)' <=> Ends(src, s, t)
    BY EndsPrime
  <2> QED
    BY <2>1
<1> HIDE DEF n
<1>5. \A j \in DOMAIN out[src] : j \in DOMAIN out'[src] /\ out'[src][j] = out[src][j]
  BY <1>2, <1>3
<1>6. \A j \in DOMAIN out[src] : \A i \in DOMAIN out'[src] : i < j => i \in DOMAIN out[src]
  BY <1>2, <1>3
<1>7. CASE Took(src, s)
  <2>1. PICK j \in DOMAIN out[src] :
          /\ Satisfies(s, out[src][j].guard) /\ Ends(src, s, out[src][j])
          /\ \A i \in DOMAIN out[src] : i < j => ~Satisfies(s, out[src][i].guard)
    BY <1>7 DEF Took
  <2>2. Took(src, s)'
    BY <1>4, <1>5, <1>6, <2>1 DEF Took
  <2> QED
    BY <2>2 DEF Followed
<1>8. CASE Untaken(src, s) /\ Follows(stack, src, s) /\ top.from = src /\ Claims(top, s)
  <2>1. PICK k \in DOMAIN stack :
          /\ Owns(stack[k], src, s)
          /\ \A h \in DOMAIN stack : h < k /\ stack[h].from = src => ~Claims(stack[h], s)
    BY <1>8 DEF Follows
  <2>2. top = stack[1] /\ 1 \in DOMAIN stack /\ DOMAIN stack \subseteq Nat \ {0}
    <3>1. stack \in Seq(PathLeg) /\ stack # <<>>
      BY DEF TypeOK, Walking
    <3> QED
      BY <3>1, TopFacts, EmptySeq, LenProperties
  <2>3. k = 1
    BY <1>8, <2>1, <2>2
  <2>4. Ends(src, s, Walked(next))
    BY <1>8, <2>1, <2>2, <2>3
  <2>5. Satisfies(s, Walked(next).guard)
    BY <1>8 DEF Claims, Walked
  <2>6. n + 1 \in DOMAIN out'[src] /\ out'[src][n + 1] = Walked(next)
    BY <1>2, <1>8
  <2>7. \A i \in DOMAIN out'[src] : i < n + 1 => ~Satisfies(s, out'[src][i].guard)
    <3>1. ASSUME NEW i \in DOMAIN out'[src], i < n + 1 PROVE ~Satisfies(s, out'[src][i].guard)
      <4>1. i \in DOMAIN out[src] /\ out'[src][i] = out[src][i]
        BY <1>2, <1>8, <3>1
      <4> QED
        BY <1>8, <4>1 DEF Untaken
    <3> QED
      BY <3>1
  <2>8. Took(src, s)'
    BY <1>4, <2>4, <2>5, <2>6, <2>7 DEF Took
  <2> QED
    BY <2>8 DEF Followed
<1>9. CASE Untaken(src, s) /\ Follows(stack, src, s) /\ ~(top.from = src /\ Claims(top, s))
  <2>1. Silent(legs, src, s)
    BY DEF Silent
  <2>6. top.from = src /\ Owns(top, src, s) => Follows(legs, src, s)
    BY <1>9 DEF Owns
  <2>7. Follows(stack, src, s) /\ ~(top.from = src /\ Claims(top, s))
    BY <1>9
  <2>8. Follows(legs \o Tail(stack), src, s)
    BY <2>1, <2>6, <2>7, ReplaceFollows
  <2>2. Follows(stack', src, s)
    BY <2>8 DEF Replace
  <2>3. Follows(stack, src, s)'
    BY <2>2, StackFollowsPrime
  <2>4. ASSUME NEW j \in DOMAIN out'[src] PROVE ~Satisfies(s, out'[src][j].guard)
    <3>1. CASE j \in DOMAIN out[src]
      BY <1>5, <1>9, <3>1 DEF Untaken
    <3>2. CASE j \notin DOMAIN out[src]
      <4>1. src = top.from /\ out'[src][j] = Walked(next)
        BY <1>2, <1>3, <3>2
      <4>2. ~Satisfies(s, top.guard)
        BY <1>9, <4>1 DEF Claims
      <4> QED
        BY <4>1, <4>2 DEF Walked
    <3> QED
      BY <3>1, <3>2
  <2>5. Untaken(src, s)'
    BY <2>4 DEF Untaken
  <2> QED
    BY <2>3, <2>5 DEF Followed
<1> QED
  BY <1>1, <1>7, <1>8, <1>9 DEF Followed

\* Where the thread halts as the leg ends, it has done what the path says.
LEMMA PathConcludes ==
  ASSUME NothingDead, Executing, InLeg, NEW s \in Store, NEW c, Meets(top, c, s), NEW next,
         Process!Halted(nodes, c), Process!Resumed(nodes, c) = Ahead(next)
  PROVE  Concludes(Walked(next), c, s)
<1>1. Walking /\ CleanEnv(top.env) /\ TypeOK
  BY TopInPlace DEF InLeg
<1>2. Decoded \subseteq Vars \ Temps
  BY <1>1 DEF TypeOK, Decoded
<1>3. /\ c = Config(c.frames, c.store, c.writes)
      /\ Stored(top.env, c.store, s) /\ Assigns(top.action, c.store, c.writes, s)
  BY DEF Meets
<1>4. /\ Walked(next).action = top.action /\ Walked(next).next = next
      /\ Walked(next).decode = Snapshot(top)
  BY DEF Walked
<1>5. ASSUME NEW d \in Decoded PROVE c.store[d] = Walked(next).decode[d][s]
  <2>1. ~ReadsDead(Bound(top.env, d))
    BY <1>1, <1>2, <1>5 DEF CleanEnv
  <2>2. top.env[s][d] = c.store[d]
    BY <1>3, <2>1, ReadsBound
  <2> QED
    BY <1>4, <1>5, <2>2 DEF Snapshot
<1>6. c.store \in Store
  BY <1>3 DEF Stored
<1> QED
  BY <1>3, <1>4, <1>5, <1>6 DEF Concludes

\* So the path takes over from the leg.
LEMMA LegEnds ==
  ASSUME NothingDead, Executing, InLeg, NEW next, NEW s \in Store, Owns(top, top.from, s),
         \A c : Meets(top, c, s) =>
           Process!Halted(nodes, c) /\ Process!Resumed(nodes, c) = Ahead(next)
  PROVE  Ends(top.from, s, Walked(next))
<1>1. PICK n \in Nat : Meets(top, Thread(top.from, s)[n], s)
  BY DEF Owns, Reaches
<1>2. Concludes(Walked(next), Thread(top.from, s)[n], s)
  BY <1>1, PathConcludes
<1> QED
  BY <1>2 DEF Ends

\* A path recorded leaves every leg with its source.
LEMMA RecordBegins ==
  ASSUME TypeOK, Begins, Walking, NEW next, Record(next), NEW legs \in Seq(PathLeg), Replace(legs),
         UNCHANGED <<name, proc>>, walked \subseteq walked',
         \A i \in DOMAIN legs : legs[i].from \in walked' \cup {Entry}
  PROVE  Begins'
<1>1. Tail(stack) \in Seq(PathLeg) /\ top = stack[1]
  BY TopFacts
<1>2. /\ Len(legs \o Tail(stack)) = Len(legs) + Len(Tail(stack))
      /\ legs \o Tail(stack) \in Seq(PathLeg)
      /\ \A i \in 1 .. Len(legs) + Len(Tail(stack)) :
           (legs \o Tail(stack))[i] = IF i <= Len(legs) THEN legs[i] ELSE Tail(stack)[i - Len(legs)]
  BY <1>1, ConcatProperties
<1>3. /\ DOMAIN (legs \o Tail(stack)) = 1 .. Len(legs) + Len(Tail(stack))
      /\ DOMAIN legs = 1 .. Len(legs) /\ DOMAIN Tail(stack) = 1 .. Len(Tail(stack))
      /\ Len(legs) \in Nat /\ Len(Tail(stack)) \in Nat
  BY <1>1, <1>2, LenProperties
<1>4. stack \in Seq(PathLeg) /\ stack # <<>>
  BY DEF TypeOK, Walking
<1>5. \A i \in DOMAIN Tail(stack) : i + 1 \in DOMAIN stack /\ Tail(stack)[i] = stack[i + 1]
  BY <1>4, EmptySeq, LenProperties, HeadTailProperties
<1>6. \A i \in DOMAIN stack : stack[i].from \in walked' \cup {Entry}
  BY DEF Begins
<1>7. \A i \in DOMAIN (legs \o Tail(stack)) : (legs \o Tail(stack))[i].from \in walked' \cup {Entry}
  BY <1>2, <1>3, <1>5, <1>6
<1>8. \A i \in DOMAIN stack' : stack'[i].from \in walked' \cup {Entry}
  BY <1>7 DEF Replace
<1>9. top.from \in walked' \cup {Entry}
  <2>1. 1 \in DOMAIN stack
    BY <1>4, EmptySeq, LenProperties
  <2> QED
    BY <1>1, <1>6, <2>1
<1>10. \A src \in Source : src # top.from => out'[src] = out[src]
  BY RecordFacts
<1>11. Source' = Source
  BY SameProcess
<1>12. \A src \in Source : src \notin walked' \cup {Entry} => out'[src] = <<>>
  BY <1>9, <1>10 DEF Begins
<1>13. Decoded' = Program[name']. outputs
  BY DEF Begins, Decoded
<1> QED
  BY <1>8, <1>11, <1>12, <1>13 DEF Begins

\* The end of the process is the end of the thread: nothing is left.
LEMMA EndOfProcessExecutes == NothingDead /\ Executing /\ EndOfProcess => Executing'
<1> SUFFICES ASSUME NothingDead, Executing, EndOfProcess PROVE Executing'
  OBVIOUS
<1> DEFINE legs == <<>>
<1>1. /\ InLeg /\ Walking /\ top.cs = NoNode /\ top.frames = <<>> /\ Record(Hold) /\ Replace(legs)
      /\ UNCHANGED <<name, proc, walked>>
  BY DEF EndOfProcess, InLeg
<1>0. legs \in Seq(PathLeg) /\ \A i \in DOMAIN legs : FALSE
  BY EmptySeq
<1> HIDE DEF legs
<1>2. TypeOK /\ Begins /\ StackInPlace /\ PathsExecute
  BY DEF NothingDead, Executing
<1>3. Begins'
  BY <1>0, <1>1, <1>2, RecordBegins
<1>4. StackInPlace'
  BY <1>0, <1>1, <1>2, ReplaceInPlace
<1>5. ASSUME NEW s \in Store, NEW c, Meets(top, c, s)
      PROVE  Process!Halted(nodes, c) /\ Process!Resumed(nodes, c) = Ahead(Hold)
  <2>1. top.frames \in Seq(Frame)
    BY <1>1, TopInPlace
  <2>2. c.frames = Strip(top.frames)
    BY <1>1, <1>5 DEF Meets, Stands
  <2>3. c.frames = <<>>
    BY <1>1, <2>1, <2>2, StripSeq
  <2> QED
    BY <2>3 DEF Process!Halted, Process!Resumed, Ahead
<1>6. \A s \in Store : Owns(top, top.from, s) => Ends(top.from, s, Walked(Hold))
  BY <1>1, <1>5, LegEnds
<1>7. ASSUME NEW src \in walked \cup {Entry}, NEW s \in Store, Exact(src, s)
      PROVE  Followed(src, s)'
  BY <1>0, <1>1, <1>2, <1>6, <1>7, RecordPaths
<1>8. PathsExecute'
  BY <1>1, <1>7, ThreadPrime DEF PathsExecute
<1> QED
  BY <1>3, <1>4, <1>8 DEF Executing

\* At a wait the thread halts, and what it resumes is what the wait leaves
\* ahead wherever it is arrived at from.
LEMMA WaitHalts ==
  ASSUME NothingDead, Executing, At({"wait"})
  PROVE  /\ Ahead(stmt) = Process!Pushed(nodes, Strip(Advanced.frames), nodes[stmt].kids[1])
         /\ \A s \in Store : \A c : Meets(top, c, s) =>
              Process!Halted(nodes, c) /\ Process!Resumed(nodes, c) = Ahead(stmt)
<1>1. Walking /\ top.cs = NoNode /\ top.frames # <<>> /\ frame.todo # <<>> /\ InFrame
  BY DEF At, InFrame, InLeg
<1>2. TypeOK /\ top \in PathLeg /\ top.frames \in Seq(Frame)
  BY <1>1, TopInPlace
<1>3. /\ frame \in Frame /\ nodes[stmt].kind = "wait" /\ stmt \in NodeId
      /\ Advanced.frames \in Seq(Frame)
  BY <1>1, <1>2, FrameFacts, AtFacts
<1>4. stmt # Hold /\ stmt # Entry
  BY <1>3, ProgramAssumption
<1>5. Around[name][stmt] = Strip(Advanced.frames)
  BY AdvancedInPlace
<1>6. Ahead(stmt) = Process!Pushed(nodes, Strip(Advanced.frames), nodes[stmt].kids[1])
  <2>1. Strip(Advanced.frames) \in Seq({Bare(f) : f \in Frame})
    BY <1>3, StripSeq
  <2>2. Strip(Strip(Advanced.frames)) = Strip(Advanced.frames)
    BY <1>3, StripTwice
  <2>3. Ahead(stmt) = Strip(PushFrame(Strip(Advanced.frames), nodes[stmt].kids[1], NoNode))
    BY <1>4, <1>5 DEF Ahead
  <2> QED
    BY <2>1, <2>2, <2>3, StripPushed
<1> DEFINE f == [frame EXCEPT !.todo = Tail(@)]
<1>7. Advanced.frames = <<f>> \o Tail(top.frames)
  BY <1>1, <1>2 DEF Advanced, PathLeg, Leg
<1>8. f.todo = Tail(Head(top.frames).todo) /\ f.loop = Head(top.frames).loop
  BY <1>3 DEF frame, Frame
<1> HIDE DEF f
<1>9. ASSUME NEW s \in Store, NEW c, Meets(top, c, s)
      PROVE  Process!Halted(nodes, c) /\ Process!Resumed(nodes, c) = Ahead(stmt)
  <2>1. c.frames = Strip(top.frames)
    BY <1>1, <1>9 DEF Meets, Stands
  <2>2. Process!Onward(c.frames) = Strip(Advanced.frames)
    BY <1>1, <1>2, <1>7, <1>8, <2>1, StripOnward
  <2>3. c.frames # <<>> /\ Head(c.frames) = Bare(frame)
    BY <1>1, <1>2, <2>1, StripTail DEF frame
  <2>4. Head(c.frames).todo # <<>> /\ Head(Head(c.frames).todo) = stmt
    BY <1>1, <2>3, BareFields DEF stmt
  <2>5. Process!Halted(nodes, c)
    BY <1>3, <2>3, <2>4 DEF Process!Halted, Process!AtStatement
  <2>6. Process!Resumed(nodes, c) = Process!Pushed(nodes, Process!Onward(c.frames), nodes[stmt].kids[1])
    BY <2>3, <2>4 DEF Process!Resumed
  <2> QED
    BY <1>6, <2>2, <2>5, <2>6
<1> QED
  BY <1>6, <1>9

\* The leg that starts at a wait starts where the thread does.
LEMMA StartOwns ==
  ASSUME NEW src, NEW frames, Strip(frames) = Ahead(src), NEW s \in Store
  PROVE  Owns(StartLeg(src, frames), src, s)
<1> DEFINE leg == StartLeg(src, frames)
<1>1. /\ leg.from = src /\ leg.guard = {} /\ leg.cs = NoNode /\ leg.frames = frames
      /\ leg.env = NoEnv /\ leg.action = {}
  BY DEF StartLeg
<1> HIDE DEF leg
<1>2. Claims(leg, s) /\ PastNone(leg, s)
  BY <1>1 DEF Claims, PastNone, Satisfies
<1>3. Thread(src, s)[0] = Config(Ahead(src), s, <<>>)
  BY ExecutionUnfolds DEF Thread, Start, Config
<1>6. Stands(leg, Ahead(src)) /\ Stored(leg.env, s, s) /\ Assigns(leg.action, s, <<>>, s)
  BY <1>1, StartStored DEF Stands
<1>4. Meets(leg, Config(Ahead(src), s, <<>>), s)
  BY <1>6, MeetsIs
<1>5. Reaches(src, s, leg)
  BY <1>3, <1>4 DEF Reaches
<1> QED
  BY <1>1, <1>2, <1>5 DEF Owns, leg

\* An arrival at a wait ends the path, and where it is the first starts another.
LEMMA ArriveExecutes == NothingDead /\ Executing /\ Arrive => Executing'
<1> SUFFICES ASSUME NothingDead, Executing, Arrive PROVE Executing'
  OBVIOUS
<1>1. /\ At({"wait"}) /\ InLeg /\ Walking /\ top.cs = NoNode /\ Record(stmt) /\ UNCHANGED <<name, proc>>
      /\ walked' = walked \cup {stmt}
  BY DEF Arrive, At, InFrame, InLeg
<1>2. TypeOK /\ Begins /\ StackInPlace /\ PathsExecute
  BY DEF NothingDead, Executing
<1>3. stmt \in NodeId /\ stmt \in Waits /\ ArrivalLegs \in Seq(PathLeg) /\ Replace(ArrivalLegs)
  BY <1>2, ArrivalFacts
<1> DEFINE F == PushFrame(Advanced.frames, nodes[stmt].kids[1], NoNode)
           leg == StartLeg(stmt, F)
<1>4. ArrivalLegs = IF stmt \in walked THEN <<>> ELSE <<leg>>
  BY DEF ArrivalLegs
<1>5. leg.from = stmt /\ leg.cs = NoNode /\ leg.env = NoEnv /\ leg.frames = F
  BY DEF StartLeg
<1>6. InPlace(F) /\ Strip(F) = Ahead(stmt)
  <2>1. /\ InPlace(Advanced.frames) /\ Around[name][stmt] = Strip(Advanced.frames)
        /\ Advanced.frames \in Seq(Frame) /\ nodes[stmt].kind = "wait" /\ name \in Names
    BY <1>1, <1>2, AdvancedInPlace, AtFacts
  <2>2. 1 \in DOMAIN nodes[stmt].kids
    BY <1>3, <2>1, ProgramAssumption DEF nodes
  <2>3. InPlace(F)
    BY <1>3, <2>1, <2>2, KidPlaced
  <2>4. Strip(F) = Process!Pushed(nodes, Strip(Advanced.frames), nodes[stmt].kids[1])
    BY <2>1, StripPushed
  <2> QED
    BY <1>1, <2>3, <2>4, WaitHalts
<1>7. \A s \in Store : Owns(leg, stmt, s)
  BY <1>6, StartOwns
<1> HIDE DEF F, leg
<1>8. \A i \in DOMAIN ArrivalLegs : ArrivalLegs[i] = leg /\ stmt \notin walked
  BY <1>4, OneSeq
<1>9. Begins'
  BY <1>1, <1>2, <1>3, <1>5, <1>8, RecordBegins
<1>10. StackInPlace'
  <2>1. LegInPlace(leg)
    BY <1>5, <1>6, NoEnvDead DEF LegInPlace
  <2> QED
    BY <1>1, <1>2, <1>3, <1>8, <2>1, ReplaceInPlace
<1>11. \A s \in Store : Owns(top, top.from, s) => Ends(top.from, s, Walked(stmt))
  <2>1. \A s \in Store : \A c : Meets(top, c, s) =>
           Process!Halted(nodes, c) /\ Process!Resumed(nodes, c) = Ahead(stmt)
    BY <1>1, WaitHalts
  <2> QED
    BY <1>1, <2>1, LegEnds
<1>12. stmt # Entry
  BY <1>3, ProgramAssumption
<1>13. ASSUME NEW src \in walked \cup {Entry}, NEW s \in Store, Exact(src, s)
       PROVE  Followed(src, s)'
  <2>1. \A i \in DOMAIN ArrivalLegs : ArrivalLegs[i].from \notin walked \cup {Entry}
    BY <1>5, <1>8, <1>12
  <2> QED
    BY <1>1, <1>2, <1>3, <1>11, <1>13, <2>1, RecordPaths
<1>14. ASSUME NEW src, src = stmt, src \notin walked, NEW s \in Store PROVE Followed(src, s)'
  <2>1. out[src] = <<>> /\ src \in Source
    BY <1>2, <1>3, <1>12, <1>14 DEF Begins, Source
  <2>2. top.from # src
    <3>1. top.from \in walked \cup {Entry}
      <4>1. stack \in Seq(PathLeg) /\ stack # <<>> /\ top = stack[1]
        BY <1>1, <1>2, TopFacts DEF TypeOK, Walking
      <4>2. 1 \in DOMAIN stack
        BY <4>1, EmptySeq, LenProperties
      <4> QED
        BY <1>2, <4>1, <4>2 DEF Begins
    <3> QED
      BY <1>12, <1>14, <3>1
  <2>3. out'[src] = <<>>
    BY <1>1, <1>2, <2>1, <2>2, RecordFacts
  <2>4. Untaken(src, s)'
    BY <2>3 DEF Untaken
  <2>5. Follows(<<leg>>, src, s)
    BY <1>7, <1>14, OneFollows
  <2>6. <<leg>> \in Seq(PathLeg) /\ Tail(stack) \in Seq(PathLeg) /\ stack' = <<leg>> \o Tail(stack)
    BY <1>1, <1>2, <1>3, <1>4, <1>14, TopFacts DEF Replace
  <2>7. Follows(stack', src, s)
    BY <2>5, <2>6, ConcatFollows
  <2>8. Follows(stack, src, s)'
    BY <1>1, <2>7, StackFollowsPrime
  <2> QED
    BY <2>4, <2>8 DEF Followed
<1>15. PathsExecute'
  <2>1. SUFFICES ASSUME NEW src \in walked' \cup {Entry}, NEW s \in Store, Exact(src, s)'
                 PROVE  Followed(src, s)'
    BY DEF PathsExecute
  <2>2. Exact(src, s)
    BY <1>1, <2>1, ThreadPrime
  <2>3. CASE src \in walked \cup {Entry}
    BY <1>13, <2>2, <2>3
  <2>4. CASE src \notin walked \cup {Entry}
    BY <1>1, <1>14, <2>1, <2>4
  <2> QED
    BY <2>3, <2>4
<1> QED
  BY <1>9, <1>10, <1>15 DEF Executing

-----------------------------------------------------------------------------
(* The walk *)

\* The thread of the top of the process is where the first leg starts.
LEMMA InitExecutes == Init => Executing
<1> SUFFICES ASSUME Init PROVE Executing
  OBVIOUS
<1>1. name \in Names /\ Program[name].root \in NodeId /\ Program[name].root # NoNode
  BY ProgramAssumption DEF Init
<1> DEFINE F == PushFrame(<<>>, Program[name].root, NoNode)
           leg == StartLeg(Entry, F)
<1>2. /\ stack = <<leg>> /\ out = [s \in Source |-> <<>>] /\ walked = {}
      /\ Decoded = Program[name].outputs
  BY DEF Init, Decoded
<1>3. leg.from = Entry /\ leg.cs = NoNode /\ leg.env = NoEnv /\ leg.frames = F
  BY DEF StartLeg
<1>4. Strip(F) = Ahead(Entry)
  BY StateAssumption DEF Ahead
<1>5. InPlace(F)
  <2> DEFINE none == <<>>
             root == Program[name].root
  <2>1. none \in Seq(Frame) /\ \A i \in DOMAIN none : FALSE
    BY EmptySeq
  <2>2. Strip(none) = <<>>
    BY <2>1, StripSeq
  <2>3. Placed(name, Process!Pushed(nodes, <<>>, root))
    BY <1>1, AroundAssumption DEF nodes
  <2> HIDE DEF root
  <2>4. Process!Pushed(nodes, <<>>, root)
          = <<[todo |-> Process!Listed(nodes, root), loop |-> NoNode, left |-> 0]>> \o Strip(none)
    BY <1>1, <2>2 DEF Process!Pushed, root
  <2>5. root \in NodeRef
    BY <1>1 DEF root, NodeRef
  <2> HIDE DEF none
  <2>6. InPlace(none)
    BY <2>1 DEF InPlace
  <2>7. InPlace(PushFrame(none, root, NoNode))
    BY <1>1, <2>1, <2>3, <2>4, <2>5, <2>6, PushInPlace
  <2> QED
    BY <2>7 DEF none, root
<1>6. \A s \in Store : Owns(leg, Entry, s)
  BY <1>4, StartOwns
<1> HIDE DEF F, leg
<1>7. DOMAIN stack = {1} /\ stack[1] = leg
  BY <1>2, OneSeq
<1>8. Begins
  BY <1>2, <1>3, <1>7 DEF Begins
<1>9. StackInPlace
  BY <1>3, <1>5, <1>7, NoEnvDead DEF StackInPlace, LegInPlace
<1>10. ASSUME NEW s \in Store PROVE Followed(Entry, s)
  <2>1. Follows(<<leg>>, Entry, s)
    BY <1>6, OneFollows
  <2>2. Untaken(Entry, s)
    BY <1>2 DEF Untaken, Source
  <2> QED
    BY <1>2, <2>1, <2>2 DEF Followed
<1>11. PathsExecute
  BY <1>2, <1>10 DEF PathsExecute
<1> QED
  BY <1>8, <1>9, <1>11 DEF Executing

\* Every step of the walk follows the thread.
LEMMA WalkStepExecutes ==
  LabelsStand /\ NothingDead /\ Executing /\ [WalkNext]_walkVars => Executing'
<1> SUFFICES ASSUME LabelsStand, NothingDead, Executing, [WalkNext]_walkVars PROVE Executing'
  OBVIOUS
<1>1. CASE UNCHANGED walkVars
  <2>1. UNCHANGED <<name, proc, stack, out, walked>>
    BY <1>1 DEF walkVars
  <2> QED
    BY <2>1, SameExecuting
<1> QED
  BY <1>1, EndOfFrameExecutes, BackEdgeExecutes, EndOfProcessExecutes, EnterBlockExecutes,
     RefusalExecutes, NonblockingExecutes, InducedExecutes, BlockingExecutes, DecodedOutputExecutes,
     IfForkExecutes, CaseBeginExecutes, CaseArmExecutes, CaseEndExecutes, EnterLoopExecutes,
     JumpExecutes, ArriveExecutes
     DEF WalkNext

\* A label that reads nothing assigned at once reads no temporary.
LEMMA LabelsReadNone == LabelsStand => LabelsReadNoTemp
BY DEF LabelsStand, LabelsReadNoTemp, ReadsDead

\* Whatever the tree and whatever the registers hold: the first path the walk
\* records for a store is the one that executing the statements one by one
\* from there would take, with its commits and its outputs, to the wait that it
\* names.  It is what makes an environment of substituted expressions, a fork
\* at every branch and the dropping of paths that contradict themselves a
\* compilation.
THEOREM WalkExecutes ==
  ASSUME LabelsStand
  PROVE  WalkSpec => []PathsExecute
<1>1. Init => NothingDead /\ Executing
  BY InitClean, InitExecutes
<1>2. NothingDead /\ Executing /\ [WalkNext]_walkVars => NothingDead' /\ Executing'
  BY WalkStepClean, WalkStepExecutes, LabelsReadNone
<1>3. Executing => PathsExecute
  BY DEF Executing
<1> QED
  BY <1>1, <1>2, <1>3, PTL DEF WalkSpec

-----------------------------------------------------------------------------
(* The machine *)

\* What the machine is compared under: the next edge or reset loses no bits
\* by assigning at once, and where a case compares expressions the process
\* decodes no output.
Faithful == Process!KeepsBits /\ (Decoded = {} \/ ConstantLabels)

\* No path of an emitted machine commits a register twice.
CommitsInv ==
  phase = "emitted" => \A src \in Source : \A j \in DOMAIN out[src] : CommitsOnce(out[src][j].action)

\* A temporary has no register: nothing writes it between two edges.
TempsStill == \A v \in Temps : store[v] = 0

\* The inductive invariant: the machine has the paths that executing has, and its
\* registers hold no temporary.
ExactMachine ==
  /\ MachineTypeOK /\ MachineInv /\ EmittedInv /\ OrderInv
  /\ NothingDead /\ Executing /\ CommitsInv /\ TempsStill

\* What is ahead at the top of the process.
LEMMA AheadTop ==
  Ahead(Entry) = Process!TopFrames /\ Process!tree = nodes
<1> DEFINE none == <<>>
<1>1. none \in Seq(Frame)
  BY EmptySeq
<1>2. Strip(none) = <<>>
  BY <1>1, StripSeq
<1>3. Strip(PushFrame(none, Program[name].root, NoNode))
        = Process!Pushed(nodes, Strip(none), Program[name].root)
  <2> HIDE DEF none
  <2> QED
    BY <1>1, StripPushed
<1>4. Process!tree = nodes
  BY DEF Process!tree, nodes
<1>5. Ahead(Entry) = Strip(PushFrame(none, Program[name].root, NoNode))
  BY StateAssumption DEF Ahead
<1>6. Process!TopFrames = Process!Pushed(nodes, <<>>, Program[name].root)
  BY <1>4 DEF Process!TopFrames
<1> QED
  BY <1>2, <1>3, <1>4, <1>5, <1>6

\* What a state stands for.
LEMMA KontIs ==
  ASSUME state \in NodeId \cup {Hold}
  PROVE  KontOf = Process!Waiting(Ahead(state))
<1>1. state # Off /\ state # Entry
  BY StateAssumption, ProgramAssumption
<1> QED
  BY <1>1 DEF KontOf, Ahead, Process!Waiting

\* Where the state register is a wait or the end, the process has left what is
\* ahead of it.
LEMMA KontNext ==
  ASSUME name' = name, NEW q \in NodeId \cup {Hold}, state' = q
  PROVE  KontOf' = Process!Waiting(Ahead(q))
<1>1. q # Off /\ q # Entry
  BY StateAssumption, ProgramAssumption
<1>2. nodes' = nodes
  BY DEF nodes
<1> QED
  BY <1>1, <1>2 DEF KontOf, Ahead, Process!Waiting, PushFrame

\* What an edge makes of the registers is what the thread has made of them.
LEMMA CommittedIs ==
  ASSUME MachineTypeOK, NEW t, NEW s \in Store, NEW c, Concludes(t, c, s), CommitsOnce(t.action),
         \A v \in Temps : s[v] = 0,
         NEW left, left = Settled(t.next, Apply(t.action, s), FALSE),
         \A d \in Decoded : left[d] = Truncate(d, t.decode[d][s])
  PROVE  left = Process!Committed(c)
<1>1. /\ c.store \in Store /\ Assigns(t.action, c.store, c.writes, s)
      /\ \A d \in Decoded : c.store[d] = t.decode[d][s]
  BY DEF Concludes
<1> DEFINE st == c.store
           wr == c.writes
           A  == t.action
<1>2. /\ \A cm \in A : cm.var \notin Temps \cup Decoded
      /\ \A cm \in A : cm.induced => st[cm.var] = Truncate(cm.var, cm.val[s])
      /\ \A cm \in A : ~cm.induced => cm.var \in DOMAIN wr
      /\ \A v \in DOMAIN wr : \E cm \in A :
           ~cm.induced /\ cm.var = v /\ wr[v] = Truncate(v, cm.val[s])
      /\ \A v \in Vars : st[v] # s[v] => v \in Temps \cup Decoded \/ \E cm \in A : cm.var = v
  BY <1>1 DEF Assigns
<1>3. Decoded \subseteq Vars \ Temps /\ Temps \subseteq Vars
  BY ProgramAssumption DEF MachineTypeOK, TypeOK, Decoded
<1>4. /\ left = [v \in Vars |-> IF v \in Decoded THEN left[v] ELSE Apply(A, s)[v]]
  BY DEF Settled
<1>5. \A v \in Vars : Apply(A, s)[v] =
        IF \E cm \in A : cm.var = v THEN Truncate(v, (CHOOSE cm \in A : cm.var = v).val[s]) ELSE s[v]
  BY DEF Apply
<1>6. Process!Committed(c)
        = [v \in Vars |-> IF v \in Temps THEN 0 ELSE IF v \in DOMAIN wr THEN wr[v] ELSE st[v]]
  BY DEF Process!Committed
<1>7. ASSUME NEW cm \in A PROVE (CHOOSE d \in A : d.var = cm.var) = cm
  <2>1. (CHOOSE d \in A : d.var = cm.var) \in A /\ (CHOOSE d \in A : d.var = cm.var).var = cm.var
    OBVIOUS
  <2> QED
    BY <2>1 DEF CommitsOnce
<1> HIDE DEF st, wr, A
<1>8. ASSUME NEW v \in Vars
      PROVE  left[v] = IF v \in Temps THEN 0 ELSE IF v \in DOMAIN wr THEN wr[v] ELSE st[v]
  <2>1. CASE v \in Decoded
    <3>1. v \notin Temps /\ v \notin DOMAIN wr
      BY <1>2, <1>3, <2>1
    <3>2. left[v] = Truncate(v, st[v])
      BY <1>1, <2>1 DEF st
    <3>3. st[v] \in Wide /\ st[v] < Modulus[v]
      BY <1>1 DEF st, Store, WideStore
    <3>4. Truncate(v, st[v]) = st[v]
      BY <3>3, TruncateFits
    <3> QED
      BY <3>1, <3>2, <3>4
  <2>2. CASE v \notin Decoded
    <3>1. left[v] = Apply(A, s)[v]
      BY <1>4, <2>2
    <3>2. CASE v \in Temps
      <4>1. ~\E cm \in A : cm.var = v
        BY <1>2, <3>2
      <4> QED
        BY <1>5, <3>1, <3>2, <4>1
    <3>3. CASE v \notin Temps /\ v \in DOMAIN wr
      <4>1. PICK cm \in A : ~cm.induced /\ cm.var = v /\ wr[v] = Truncate(v, cm.val[s])
        BY <1>2, <3>3
      <4>2. (CHOOSE d \in A : d.var = v) = cm
        BY <1>7, <4>1
      <4> QED
        BY <1>5, <3>1, <3>3, <4>1, <4>2
    <3>4. CASE v \notin Temps /\ v \notin DOMAIN wr /\ \E cm \in A : cm.var = v
      <4>1. PICK cm \in A : cm.var = v
        BY <3>4
      <4>2. (CHOOSE d \in A : d.var = v) = cm
        BY <1>7, <4>1
      <4>3. st[v] = Truncate(v, cm.val[s])
        BY <1>2, <3>4, <4>1
      <4> QED
        BY <1>5, <3>1, <3>4, <4>1, <4>2, <4>3
    <3>5. CASE v \notin Temps /\ v \notin DOMAIN wr /\ ~\E cm \in A : cm.var = v
      BY <1>2, <1>5, <2>2, <3>1, <3>5
    <3> QED
      BY <3>2, <3>3, <3>4, <3>5
  <2> QED
    BY <2>1, <2>2
<1>9. left = [v \in Vars |-> left[v]]
  BY <1>4
<1> QED
  BY <1>6, <1>8, <1>9

\* An edge that takes the path of the store is what the thread does.
LEMMA ResumeIs ==
  ASSUME MachineTypeOK, Lengths = Nat, name' = name, NEW src, NEW s \in Store,
         NEW t, Ends(src, s, t), CommitsOnce(t.action), \A v \in Temps : s[v] = 0,
         t.next \in NodeId \cup {Hold},
         store' = Settled(t.next, Apply(t.action, s), FALSE), state' = t.next,
         \A d \in Decoded : Settled(t.next, Apply(t.action, s), FALSE)[d] = Truncate(d, t.decode[d][s])
  PROVE  Process!Resume(Ahead(src), s) /\ TempsStill'
<1>1. PICK n \in Nat : Concludes(t, Thread(src, s)[n], s)
  BY DEF Ends
<1> DEFINE c == Thread(src, s)[n]
           reached == {Process!Execution(Process!tree, Ahead(src), s)[m] : m \in Lengths}
<1>2. c \in reached
  BY <1>1, AheadTop DEF Thread
<1>3. Process!Halted(Process!tree, c) /\ Process!Resumed(Process!tree, c) = Ahead(t.next)
  BY <1>1, AheadTop DEF Concludes
<1>4. KontOf' = Process!Waiting(Ahead(t.next))
  BY KontNext
<1>5. store' = Process!Committed(c)
  <2> DEFINE left == Settled(t.next, Apply(t.action, s), FALSE)
  <2>1. \A d \in Decoded : left[d] = Truncate(d, t.decode[d][s])
    OBVIOUS
  <2>2. left = left /\ Concludes(t, c, s)
    BY <1>1
  <2> HIDE DEF left, c
  <2>3. \A l : l = left => l = Process!Committed(c)
    <3>1. left = Process!Committed(c)
      BY <2>1, <2>2, CommittedIs DEF left
    <3> QED
      BY <3>1
  <2> QED
    BY <2>3 DEF left
<1> HIDE DEF c
<1>6. /\ \E d \in reached :
           /\ Process!Halted(Process!tree, d)
           /\ KontOf' = Process!Waiting(Process!Resumed(Process!tree, d)) /\ store' = Process!Committed(d)
  BY <1>2, <1>3, <1>4, <1>5
<1>7. TempsStill'
  <2>1. \A v \in Temps : store'[v] = 0
    BY <1>5, ProgramAssumption DEF Process!Committed
  <2> QED
    BY <2>1 DEF TempsStill
<1> QED
  BY <1>6, <1>7 DEF Process!Resume

\* The environment drives the process as it does the machine.
LEMMA SameStimulus ==
  /\ Process!Stimulus = Stimulus /\ Process!Store = Store
  /\ \A x : Process!Sampled(x) = Sampled(x)
BY DEF Process!Stimulus, Stimulus, Process!Store, Store, Process!WideStore, WideStore,
       Process!Wide, Wide, Process!Sampled, Sampled

\* What an edge reads, and that the thread loses no bits from there.
LEMMA EdgeFacts ==
  ASSUME ExactMachine, Faithful, NEW x \in Stimulus
  PROVE  /\ Sampled(x) \in Store
         /\ state \in NodeId \cup {Hold} => Exact(state, Sampled(x))
         /\ \A v \in Temps : Sampled(x)[v] = 0
<1>1. Sampled(x) \in Store
  BY SampledType DEF ExactMachine, MachineTypeOK
<1>2. \A v \in Temps : Sampled(x)[v] = 0
  BY ProgramAssumption, DisciplineAssumption DEF ExactMachine, TempsStill, Sampled
<1>3. KontOf.is = "waiting" => Process!Lossless(Process!tree, KontOf.frames, Process!Sampled(x))
  BY SameStimulus DEF Faithful, Process!KeepsBits
<1>5. ASSUME state \in NodeId \cup {Hold} PROVE Exact(state, Sampled(x))
  <2>1. KontOf.is = "waiting" /\ KontOf.frames = Ahead(state)
    BY <1>5, KontIs DEF Process!Waiting
  <2> QED
    BY <1>3, <2>1, AheadTop, SameStimulus DEF Exact
<1> QED
  BY <1>1, <1>2, <1>5

\* Once the walk is done, the thread takes a path of the cover.
LEMMA TookPath ==
  ASSUME ExactMachine, phase = "emitted", NEW src \in walked \cup {Entry}, NEW s \in Store,
         Exact(src, s)
  PROVE  Took(src, s)
<1>1. Followed(src, s)
  BY DEF ExactMachine, Executing, PathsExecute
<1>2. stack = <<>>
  BY DEF ExactMachine, MachineInv
<1>3. ~Follows(stack, src, s)
  BY <1>2 DEF Follows
<1> QED
  BY <1>1, <1>3 DEF Followed

\* The first path a store satisfies is the one the thread ends its step by, and
\* the outputs show what that path leaves in them.
LEMMA PathTaken ==
  ASSUME ExactMachine, Faithful, phase = "emitted", NEW src \in walked \cup {Entry}, NEW s \in Store,
         Exact(src, s), NEW j \in DOMAIN out[src], Satisfies(s, out[src][j].guard),
         \A i \in 1 .. j - 1 : ~Satisfies(s, out[src][i].guard)
  PROVE  LET t == out[src][j] IN
         /\ Ends(src, s, t) /\ CommitsOnce(t.action) /\ t.next \in NodeId \cup {Hold}
         /\ \A d \in Decoded : Settled(t.next, Apply(t.action, s), FALSE)[d] = Truncate(d, t.decode[d][s])
<1>1. /\ MachineTypeOK /\ MachineInv /\ EmittedInv /\ OrderInv /\ CommitsInv /\ TypeOK
  BY DEF ExactMachine, MachineTypeOK
<1>2. src \in Source /\ DOMAIN out[src] = 1 .. Len(out[src]) /\ out[src] \in Seq(Transition)
  BY <1>1, LenProperties DEF TypeOK, Source
<1>3. PICK k \in DOMAIN out[src] :
        /\ Satisfies(s, out[src][k].guard) /\ Ends(src, s, out[src][k])
        /\ \A i \in DOMAIN out[src] : i < k => ~Satisfies(s, out[src][i].guard)
  BY TookPath DEF Took
<1>4. k = j
  BY <1>2, <1>3
<1>5. out[src][j] \in Transition
  BY <1>2
<1>6. out[src][j].next \in NodeId \cup {Hold}
  BY <1>5 DEF Transition, Waits
<1>7. ASSUME NEW d \in Decoded
      PROVE  Settled(out[src][j].next, Apply(out[src][j].action, s), FALSE)[d]
               = Truncate(d, out[src][j].decode[d][s])
  <2>1. Order
    BY <1>1, <1>7 DEF Faithful, OrderInv
  <2> QED
    BY <1>1, <1>2, <1>7, <2>1, EdgeDecodes
<1>8. CommitsOnce(out[src][j].action)
  BY <1>1, <1>2 DEF CommitsInv
<1> QED
  BY <1>3, <1>4, <1>6, <1>7, <1>8

\* The outputs are what the statements assign at once for others to read.
LEMMA SameOutputs ==
  ASSUME ExactMachine
  PROVE  Process!Outputs = Decoded
<1>1. name \in Names /\ Decoded = Program[name].outputs
  BY DEF ExactMachine, Executing, Begins, MachineTypeOK, TypeOK, Decoded
<1>2. Process!tree = nodes /\ DOMAIN nodes = NodeId /\ nodes = Program[name].node
  BY <1>1, ProgramAssumption DEF Process!tree, nodes
<1>3. Process!Outputs \subseteq Decoded
  BY <1>1, <1>2, DisciplineAssumption DEF Process!Outputs
<1>4. Decoded \subseteq Process!Outputs
  BY <1>1, <1>2, DisciplineAssumption DEF Process!Outputs
<1> QED
  BY <1>3, <1>4

\* Whatever the comb shows while the reset is up, the preamble starts from a store
\* the process may start from: it differs in outputs that have no value yet.
LEMMA ResetFacts ==
  ASSUME ExactMachine, Faithful, phase = "emitted", NEW x \in Stimulus, NEW s \in UnderReset(x)
  PROVE  /\ s \in Process!Begun(x) /\ s \in Store
         /\ Exact(Entry, s) /\ \A v \in Temps : s[v] = 0
<1>1. MachineTypeOK /\ MachineInv /\ Sampled(x) \in Store
  BY SampledType DEF ExactMachine, MachineTypeOK
<1>2. s \in Store
  BY <1>1, UnderResetType DEF MachineInv
<1>3. s = [v \in Vars |-> s[v]] /\ \A v \in Vars \ Decoded : s[v] = Sampled(x)[v]
  BY DEF UnderReset, Settled, Sampled
<1>4. Decoded \subseteq Vars \ Temps /\ Process!Outputs = Decoded
  BY <1>1, SameOutputs, ProgramAssumption DEF MachineTypeOK, TypeOK, Decoded
<1>5. s \in Process!Begun(x)
  <2> DEFINE unset == [v \in Decoded |-> s[v]]
  <2>1. \A v \in Decoded : unset[v] \in Wide /\ unset[v] < Modulus[v]
    BY <1>2, <1>4 DEF Store, WideStore
  <2>2. unset \in {o \in [Decoded -> Wide] : \A v \in Decoded : o[v] < Modulus[v]}
    BY <2>1
  <2>3. s = [v \in Vars |-> IF v \in Decoded THEN unset[v] ELSE Sampled(x)[v]]
    BY <1>3
  <2> HIDE DEF unset
  <2>4. Process!Wide = Wide /\ Process!Sampled(x) = Sampled(x)
    BY SameStimulus DEF Process!Wide, Wide
  <2> QED
    BY <1>4, <2>2, <2>3, <2>4 DEF Process!Begun
<1>6. Exact(Entry, s)
  <2>1. x \in Process!Stimulus
    BY SameStimulus
  <2>2. Process!Lossless(Process!tree, Process!TopFrames, s)
    BY <1>5, <2>1 DEF Faithful, Process!KeepsBits
  <2> QED
    BY <2>2, AheadTop DEF Exact
<1>7. \A v \in Temps : s[v] = 0
  <2>1. ASSUME NEW v \in Temps PROVE s[v] = 0
    <3>1. v \in Vars \ Decoded
      BY <1>4, ProgramAssumption
    <3>2. Sampled(x)[v] = 0
      BY EdgeFacts
    <3> QED
      BY <1>3, <3>1, <3>2
  <2> QED
    BY <2>1
<1> QED
  BY <1>2, <1>5, <1>6, <1>7

\* The reset is the thread's start.
LEMMA ResetMaps ==
  ASSUME ExactMachine, Faithful, Lengths = Nat, NEW x \in Stimulus, ResetEdge(x)
  PROVE  Process!Reset(x) /\ TempsStill'
<1>1. phase = "emitted" /\ UNCHANGED walkVars /\ state' = preamble.next
  BY DEF ResetEdge
<1>6. PICK s \in UnderReset(x) :
        store' = Settled(preamble.next, Apply(preamble.action, s), TRUE)
  BY DEF ResetEdge
<1>2. MachineTypeOK /\ MachineInv
  BY DEF ExactMachine
<1>3. 1 \in DOMAIN out[Entry] /\ out[Entry][1].guard = {}
  BY <1>1, <1>2, PreamblePath DEF MachineInv, SinglePreamble, preamble
<1> DEFINE t == out[Entry][1]
<1>5. s \in Store /\ Exact(Entry, s) /\ \A v \in Temps : s[v] = 0
  BY <1>1, ResetFacts
<1>12. store' = Settled(preamble.next, Apply(preamble.action, s), FALSE)
  BY <1>1, <1>5, <1>6, ResetSettles DEF ExactMachine
<1>7. /\ Ends(Entry, s, t) /\ CommitsOnce(t.action) /\ t.next \in NodeId \cup {Hold}
      /\ \A d \in Decoded : Settled(t.next, Apply(t.action, s), FALSE)[d] = Truncate(d, t.decode[d][s])
  <2>1. ASSUME NEW j \in DOMAIN out[Entry], j = 1
        PROVE  LET u == out[Entry][j] IN
               /\ Ends(Entry, s, u) /\ CommitsOnce(u.action) /\ u.next \in NodeId \cup {Hold}
               /\ \A d \in Decoded : Settled(u.next, Apply(u.action, s), FALSE)[d] = Truncate(d, u.decode[d][s])
    <3>1. Satisfies(s, out[Entry][j].guard) /\ \A i \in 1 .. j - 1 : ~Satisfies(s, out[Entry][i].guard)
      BY <1>3, <2>1 DEF Satisfies
    <3> QED
      BY <1>1, <1>5, <3>1, PathTaken
  <2> QED
    BY <1>3, <2>1
<1>8. name' = name
  BY <1>1 DEF walkVars
<1>9. preamble = t
  BY DEF preamble
<1> HIDE DEF t
<1>10. s \in Store /\ (\A v \in Temps : s[v] = 0) /\ store' = Settled(t.next, Apply(t.action, s), FALSE) /\ state' = t.next
  BY <1>1, <1>5, <1>9, <1>12
<1>11. Process!Resume(Ahead(Entry), s) /\ TempsStill'
  BY <1>2, <1>7, <1>8, <1>10, ResumeIs
<1>13. s \in Process!Begun(x)
  BY <1>1, ResetFacts
<1> QED
  BY <1>8, <1>11, <1>13, AheadTop DEF Process!Reset

\* In the state it is in, the machine shows what the edge before it left.
LEMMA SettledSame ==
  ASSUME ExactMachine, phase = "emitted", state # Off, NEW x \in Stimulus
  PROVE  Settled(state, Sampled(x), FALSE) = Sampled(x)
<1>1. MachineTypeOK /\ MachineInv /\ EmittedInv /\ TypeOK
  BY DEF ExactMachine, MachineTypeOK
<1>2. Decoded \cap Inputs = {}
  BY <1>1, DecodeAssumption DEF ExactMachine, Executing, Begins, TypeOK
<1>3. ASSUME NEW d \in Decoded PROVE Shown(state, d, Sampled(x), FALSE) = Sampled(x)[d]
  <2>1. state \in States /\ Sources(state) # {} /\ Shown(state, d, store, FALSE) = store[d]
    BY <1>1, CompiledIsAState DEF MachineInv, EmittedInv
  <2>2. Sampled(x) \in Store /\ store \in Store
    BY <1>1, SampledType DEF MachineTypeOK
  <2>3. Difference(Sampled(x), store) \subseteq Moving
    BY DEF Difference, Moving, Sampled
  <2>4. Shown(state, d, Sampled(x), FALSE) = Shown(state, d, store, FALSE)
    BY <1>1, <2>1, <2>2, <2>3, ShowsSame DEF EmittedInv
  <2>5. d \in Vars /\ d \notin Inputs
    BY <1>1, <1>2 DEF TypeOK, Decoded
  <2> QED
    BY <2>1, <2>4, <2>5 DEF Sampled
<1>4. Settled(state, Sampled(x), FALSE) = [v \in Vars |-> Sampled(x)[v]]
  BY <1>3 DEF Settled
<1> QED
  BY <1>4 DEF Sampled

\* A one-shot that has ended executes nothing more.
LEMMA ParkedIs ==
  ASSUME Lengths = Nat, name' = name, NEW s \in Store, \A v \in Temps : s[v] = 0,
         store' = s, state' = Hold
  PROVE  Process!Resume(Ahead(Hold), s)
<1> DEFINE none == <<>>
           c == Start(none, s)
           reached == {Process!Execution(Process!tree, none, s)[m] : m \in Lengths}
<1>1. c.frames = <<>> /\ c.store = s /\ c.writes = <<>>
  BY DEF Start
<1>2. Process!Execution(Process!tree, none, s)[0] = c
  <2> HIDE DEF none
  <2> QED
    BY ExecutionUnfolds DEF c
<1>3. c \in reached
  BY <1>2
<1>4. Process!Halted(Process!tree, c) /\ Process!Resumed(Process!tree, c) = <<>>
  BY <1>1 DEF Process!Halted, Process!Resumed
<1>5. Process!Committed(c) = s
  <2>1. \A v \in Vars : v \notin DOMAIN c.writes
    BY <1>1
  <2>2. s = [v \in Vars |-> s[v]]
    BY DEF Store, WideStore
  <2> HIDE DEF c
  <2>3. Process!Committed(c) = [v \in Vars |-> s[v]]
    BY <1>1, <2>1 DEF Process!Committed
  <2> QED
    BY <2>2, <2>3
<1>6. KontOf' = Process!Waiting(<<>>)
  BY KontNext DEF Ahead
<1> HIDE DEF c
<1>7. \E d \in reached :
        /\ Process!Halted(Process!tree, d)
        /\ KontOf' = Process!Waiting(Process!Resumed(Process!tree, d)) /\ store' = Process!Committed(d)
  BY <1>3, <1>4, <1>5, <1>6
<1>8. Ahead(Hold) = <<>>
  BY DEF Ahead
<1> QED
  BY <1>7, <1>8 DEF Process!Resume

\* An edge is an edge of the process.
LEMMA ClockMaps ==
  ASSUME ExactMachine, Faithful, Lengths = Nat, NEW x \in Stimulus, ClockEdge(x)
  PROVE  Process!Edge(x) /\ TempsStill'
<1> DEFINE s == Sampled(x)
<1>1. /\ phase = "emitted" /\ state # Off /\ UNCHANGED walkVars /\ name' = name
  BY DEF ClockEdge, walkVars
<1>2. MachineTypeOK /\ MachineInv /\ state \in NodeId \cup {Hold}
  BY <1>1 DEF ExactMachine, MachineTypeOK
<1>3. KontOf.is = "waiting" /\ KontOf.frames = Ahead(state) /\ KontOf = Process!Waiting(Ahead(state))
  BY <1>2, KontIs DEF Process!Waiting
<1>4. s \in Store /\ Exact(state, s) /\ \A v \in Temps : s[v] = 0
  BY <1>2, EdgeFacts
<1>5. Settled(state, s, FALSE) = s
  BY <1>1, SettledSame
<1>6. Enabled(s) <=> \A test \in Program[name].enable : Process!True(test, s)
  BY DEF Enabled, Process!True
<1>7. Process!Sampled(x) = s
  BY SameStimulus
<1>8. IF ~Enabled(s) \/ state = Hold \/ out[state] = <<>>
      THEN store' = Settled(state, s, FALSE) /\ state' = state
      ELSE LET t == out[state][Taken(state, s)]
           IN  store' = Settled(t.next, Apply(t.action, s), FALSE) /\ state' = t.next
  BY DEF ClockEdge
<1> HIDE DEF s
<1>9. CASE ~Enabled(s)
  <2>1. store' = s /\ state' = state
    BY <1>5, <1>8, <1>9
  <2>2. KontOf' = KontOf
    BY <1>1, <1>2, <1>3, <2>1, KontNext
  <2>3. TempsStill'
    BY <1>4, <2>1 DEF TempsStill
  <2> QED
    BY <1>1, <1>3, <1>6, <1>7, <1>9, <2>1, <2>2, <2>3 DEF Process!Edge
<1>10. CASE Enabled(s) /\ state = Hold
  <2>1. store' = s /\ state' = Hold
    BY <1>5, <1>8, <1>10
  <2>2. Process!Resume(Ahead(Hold), s)
    BY <1>1, <1>4, <2>1, ParkedIs
  <2>3. TempsStill'
    BY <1>4, <2>1 DEF TempsStill
  <2> QED
    BY <1>1, <1>3, <1>6, <1>7, <1>10, <2>2, <2>3 DEF Process!Edge
<1>11. CASE Enabled(s) /\ state # Hold
  <2>1. state \in walked
    BY <1>1, <1>2, <1>11 DEF MachineInv
  <2>2. Took(state, s)
    BY <1>1, <1>4, <2>1, TookPath
  <2>3. out[state] # <<>>
    BY <2>2 DEF Took
  <2> DEFINE j == Taken(state, s)
             t == out[state][j]
  <2>4. /\ j \in DOMAIN out[state] /\ Satisfies(s, out[state][j].guard)
        /\ \A i \in 1 .. j - 1 : ~Satisfies(s, out[state][i].guard)
    BY <1>1, <1>2, <1>4, <1>11, <2>3, TakenHolds
  <2>5. store' = Settled(t.next, Apply(t.action, s), FALSE) /\ state' = t.next
    BY <1>8, <1>11, <2>3
  <2> HIDE DEF j
  <2>6. /\ Ends(state, s, t) /\ CommitsOnce(t.action) /\ t.next \in NodeId \cup {Hold}
        /\ \A d \in Decoded : Settled(t.next, Apply(t.action, s), FALSE)[d] = Truncate(d, t.decode[d][s])
    BY <1>1, <1>4, <2>1, <2>4, PathTaken
  <2> HIDE DEF t
  <2>7. \A src : src = state => Process!Resume(Ahead(src), s) /\ TempsStill'
    <3>1. ASSUME NEW src, src = state PROVE Process!Resume(Ahead(src), s) /\ TempsStill'
      <4>1. Ends(src, s, t)
        BY <2>6, <3>1
      <4> QED
        BY <1>1, <1>2, <1>4, <2>5, <2>6, <4>1, ResumeIs
    <3> QED
      BY <3>1
  <2> QED
    BY <1>1, <1>3, <1>6, <1>7, <1>11, <2>7 DEF Process!Edge
<1> QED
  BY <1>9, <1>10, <1>11

\* The process being compiled stays the same.
LEMMA SameName == [WalkNext]_walkVars => name' = name
<1>1. \A leg, loop : LoopFork(leg, loop) => name' = name
  BY DEF LoopFork, Fail
<1>2. Jump => name' = name
  BY <1>1 DEF Jump, Fail
<1> QED
  BY <1>1, <1>2 DEF WalkNext, EndOfFrame, BackEdge, EndOfProcess, EnterBlock, DeadTemporary, Fail,
     Nonblocking, Induced, Blocking, DecodedOutput, OutputLeft, IfFork, CaseBegin, CaseArm, CaseEnd,
     EnterLoop, Arrive, Finish, walkVars

\* Compiling and refusing are no steps of the process; powering up is one.
LEMMA AnswerMaps ==
  ASSUME ExactMachine, Compile \/ Refuse \/ Emit \/ UNCHANGED vars
  PROVE  [Process!Next]_Process!processVars /\ TempsStill'
<1>1. CASE UNCHANGED vars
  <2>1. name' = name /\ state' = state /\ store' = store
    BY <1>1 DEF vars, walkVars, machineVars
  <2>2. KontOf' = KontOf
    BY <2>1 DEF KontOf, nodes, PushFrame
  <2>3. TempsStill'
    BY <2>1 DEF ExactMachine, TempsStill
  <2> QED
    BY <2>1, <2>2, <2>3 DEF Process!processVars
<1>2. CASE Compile \/ Refuse
  <2>1. state = Off /\ state' = state /\ store' = store
    BY <1>2 DEF ExactMachine, MachineInv, Compile, Refuse, machineVars
  <2>2. name' = name
    BY <1>2, SameName DEF Compile, Refuse, walkVars
  <2>3. KontOf' = KontOf
    BY <2>1 DEF KontOf
  <2>4. TempsStill'
    BY <2>1 DEF ExactMachine, TempsStill
  <2> QED
    BY <2>1, <2>2, <2>3, <2>4 DEF Process!processVars
<1>3. CASE Emit
  <2>1. state = Off /\ state' = state /\ store' \in PowerUp /\ name' = name
    BY <1>3 DEF ExactMachine, MachineInv, Emit, walkVars
  <2>2. KontOf = Process!Unstarted /\ KontOf' = KontOf
    BY <2>1 DEF KontOf, Process!Unstarted
  <2>3. store' \in Process!PowerUp
    BY <2>1, SameStimulus DEF PowerUp, Process!PowerUp
  <2>4. TempsStill'
    BY <2>1 DEF TempsStill, PowerUp
  <2> QED
    BY <2>1, <2>2, <2>3, <2>4 DEF Process!Next, Process!PowerOn
<1> QED
  BY <1>1, <1>2, <1>3

\* The cover outlives the walk, which nothing resumes.
LEMMA CommitsStep ==
  ASSUME MachineTypeOK, CommitsInv, [MachineNext]_vars
  PROVE  CommitsInv'
<1>1. CASE Emit
  <2>1. Accepted /\ UNCHANGED walkVars
    BY <1>1 DEF Emit
  <2>2. TypeOK
    BY DEF MachineTypeOK
  <2>3. DOMAIN out = Source /\ Len(out[Entry]) = 1 /\ DOMAIN out[Entry] = {1}
    BY <2>1, <2>2, LenProperties DEF Accepted, SinglePreamble, TypeOK, Source
  <2>4. ASSUME NEW src \in Source, NEW j \in DOMAIN out[src] PROVE CommitsOnce(out[src][j].action)
    <3>1. CASE src = Entry
      BY <2>1, <2>3, <2>4, <3>1 DEF Accepted, preamble
    <3>2. CASE src # Entry
      BY <2>1, <2>3, <2>4, <3>2 DEF Accepted, WaitStates
    <3> QED
      BY <3>1, <3>2
  <2>5. out' = out /\ Source' = Source
    BY <2>1, SameProcess DEF walkVars
  <2> QED
    BY <2>4, <2>5 DEF CommitsInv, CommitsOnce
<1>2. CASE phase' # "emitted"
  BY <1>2 DEF CommitsInv
<1>3. CASE phase = "emitted" /\ UNCHANGED walkVars
  <2>1. out' = out /\ Source' = Source
    BY <1>3, SameProcess DEF walkVars
  <2> QED
    BY <1>3, <2>1 DEF CommitsInv, CommitsOnce
<1>4. Emit \/ phase' # "emitted" \/ (phase = "emitted" /\ UNCHANGED walkVars)
  <2>1. Compile => phase' # "emitted"
    BY DEF Compile, machineVars
  <2>2. Refuse => phase' # "emitted"
    BY DEF Refuse
  <2>3. UNCHANGED vars => UNCHANGED walkVars /\ phase' = phase
    BY DEF vars, machineVars
  <2>4. \A x : ResetEdge(x) \/ ClockEdge(x) => phase = "emitted" /\ UNCHANGED walkVars
    BY DEF ResetEdge, ClockEdge
  <2> QED
    BY <2>1, <2>2, <2>3, <2>4 DEF MachineNext
<1> QED
  BY <1>1, <1>2, <1>3, <1>4

\* Every step of the machine is one of the process, or none.
LEMMA StepMaps ==
  ASSUME ExactMachine, Faithful, Lengths = Nat, [MachineNext]_vars
  PROVE  [Process!Next]_Process!processVars /\ TempsStill'
<1>1. CASE Compile \/ Refuse \/ Emit \/ UNCHANGED vars
  BY <1>1, AnswerMaps
<1>2. ASSUME NEW x \in Stimulus, ResetEdge(x) \/ ClockEdge(x)
      PROVE  [Process!Next]_Process!processVars /\ TempsStill'
  <2>1. (Process!Reset(x) \/ Process!Edge(x)) /\ TempsStill'
    BY <1>2, ResetMaps, ClockMaps
  <2>2. x \in Process!Stimulus
    BY SameStimulus
  <2> QED
    BY <2>1, <2>2 DEF Process!Next
<1> QED
  BY <1>1, <1>2 DEF MachineNext

\* Every step of the machine keeps it, while the process is one the machine is
\* compared under.
LEMMA ExactMachineStep ==
  LabelsStand /\ Lengths = Nat /\ ExactMachine /\ Faithful /\ [MachineNext]_vars => ExactMachine'
<1> SUFFICES ASSUME LabelsStand, Lengths = Nat, ExactMachine, Faithful, [MachineNext]_vars
             PROVE  ExactMachine'
  OBVIOUS
<1>1. [WalkNext]_walkVars
  BY DEF MachineNext, Compile, Emit, Refuse, ResetEdge, ClockEdge, vars
<1>2. NothingDead' /\ Executing'
  BY <1>1, WalkStepClean, WalkStepExecutes, LabelsReadNone DEF ExactMachine
<1>3. MachineTypeOK' /\ MachineInv' /\ EmittedInv' /\ OrderInv'
  BY MachineStepInv, EmittedStep, MachineStepOrder DEF ExactMachine
<1>4. CommitsInv'
  BY CommitsStep DEF ExactMachine
<1>5. TempsStill'
  BY StepMaps
<1> QED
  BY <1>2, <1>3, <1>4, <1>5 DEF ExactMachine

\* The machine starts where the process does.
LEMMA InitMaps == MachineInit => ExactMachine /\ Process!Init
<1> SUFFICES ASSUME MachineInit PROVE ExactMachine /\ Process!Init
  OBVIOUS
<1>1. Init /\ phase = "compiling" /\ state = Off /\ store = [v \in Vars |-> 0]
  BY DEF MachineInit
<1>2. MachineTypeOK /\ MachineInv /\ EmittedInv /\ OrderInv
  BY <1>1, MachineInitInv, InitOrder DEF EmittedInv, OrderInv
<1>3. NothingDead /\ Executing
  BY <1>1, InitClean, InitExecutes
<1>4. \A v \in Vars : store[v] = 0
  BY <1>1
<1>5. TempsStill
  BY <1>4, ProgramAssumption DEF TempsStill
<1>6. store \in Process!PowerUp
  <2>1. store \in Store
    BY <1>2 DEF MachineTypeOK
  <2>2. \A v \in Inputs \cup Temps : store[v] = 0
    <3>1. Inputs \cup Temps \subseteq Vars
      BY ProgramAssumption, DisciplineAssumption
    <3> QED
      BY <1>4, <3>1
  <2> QED
    BY <2>1, <2>2, SameStimulus DEF Process!PowerUp
<1>7. KontOf = Process!Unstarted
  BY <1>1 DEF KontOf, Process!Unstarted
<1>8. Process!Init
  BY <1>1, <1>6, <1>7 DEF Init, Process!Init
<1> QED
  BY <1>1, <1>2, <1>3, <1>5, <1>8 DEF ExactMachine, CommitsInv

\* Whatever the process, its registers, the inputs and the resets: the machine
\* emitted for it implements it.  Every edge, from any state, with any values in
\* the registers, does what executing the statements of the process one by one
\* would do by the next wait: the same registers and outputs, and the same left
\* to execute.  The process must lose no bits by assigning at once and, where it
\* decodes outputs, compare constants in its cases.
THEOREM MachineExecutes ==
  ASSUME LabelsStand, Lengths = Nat
  PROVE  MachineSpec /\ []Faithful => ExecutesTree
<1>1. MachineInit => ExactMachine /\ Process!Init
  BY InitMaps
<1>2. ExactMachine /\ Faithful /\ [MachineNext]_vars => ExactMachine'
  BY ExactMachineStep
<1>3. ExactMachine /\ Faithful /\ [MachineNext]_vars => [Process!Next]_Process!processVars
  BY StepMaps
<1> QED
  BY <1>1, <1>2, <1>3, PTL DEF MachineSpec, ExecutesTree, Process!Spec
=============================================================================
