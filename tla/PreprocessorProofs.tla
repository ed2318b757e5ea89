------------------------- MODULE PreprocessorProofs -------------------------
(***************************************************************************)
(* Whatever the files, the macros and the limits, as long as no            *)
(* conditional directive follows another directive on its line: what the   *)
(* preprocessor emits and acts upon is what stands. And as long as no body *)
(* of a macro defines, undefines or includes anything, the counter kept    *)
(* with a macro is the number of its expansions that are open.             *)
(***************************************************************************)
EXTENDS Preprocessor, FiniteSetTheorems, TLAPS

\* The branch read last in each of the groups up to the i-th is the chosen one.
StandsUpTo(i) == \A j \in 1 .. i : Chosen(groups[j])

NoneTrue(g) == \A k \in DOMAIN g.conds : ~g.conds[k]

\* A frame of the code says of its group, and of those around it, what counts.
Tracks(i) ==
  /\ cond[i].inElse = groups[i].closed
  /\ cond[i].state = "taken" <=> StandsUpTo(i)
  /\ cond[i].state = "looking" <=> StandsUpTo(i - 1) /\ NoneTrue(groups[i])

Matched ==
  /\ cond \in Seq(CondFrame)
  /\ groups \in Seq(Group)
  /\ Len(cond) = Len(groups)
  /\ \A i \in DOMAIN cond : Len(groups[i].conds) > 0 /\ Tracks(i)

\* A line that belongs to a `define is not scanned for conditional directives,
\* and a define or an include is only read where the text stands.
LineInv ==
  /\ defining => mode \in {"define", "skip"}
  /\ mode = "define" => defining
  /\ mode \in {"define", "tail"} => Emitting(cond)

Inv == Matched /\ LineInv

-----------------------------------------------------------------------------
(* The stack and the groups *)

\* The innermost frame emits exactly when every group's branch is chosen.
LEMMA MatchedEmits ==
  ASSUME Matched
  PROVE  Emitting(cond) <=> Stands(groups)
<1>1. DOMAIN cond = 1 .. Len(groups) /\ DOMAIN groups = 1 .. Len(groups) /\ Len(groups) \in Nat
  BY DEF Matched
<1>2. Emitting(cond) <=> \A i \in 1 .. Len(groups) : StandsUpTo(i)
  BY <1>1 DEF Matched, Tracks, Emitting
<1>3. (\A i \in 1 .. Len(groups) : StandsUpTo(i)) <=> \A j \in 1 .. Len(groups) : Chosen(groups[j])
  BY <1>1 DEF StandsUpTo
<1> QED
  BY <1>1, <1>2, <1>3 DEF Stands

\* Opening a group: its frame is dead unless the text around it stands.
LEMMA OpenMatches ==
  ASSUME Matched, NEW c \in BOOLEAN, cond' = PushIfdef(cond, c), groups' = Open(groups, c)
  PROVE  Matched'
<1>1. PICK n \in Nat : n = Len(groups)
  BY DEF Matched
<1>2. PICK f \in CondFrame : f = [state |-> NewBlock(c, Emitting(cond)), inElse |-> FALSE]
  <2>1. NewBlock(c, Emitting(cond)) \in {"taken", "looking", "done"}
    BY DEF NewBlock
  <2>2. [state |-> NewBlock(c, Emitting(cond)), inElse |-> FALSE] \in CondFrame
    BY <2>1 DEF CondFrame
  <2> QED
    BY <2>2
<1>3. PICK g \in Group : g = [conds |-> <<c>>, closed |-> FALSE]
  <2>1. <<c>> \in Seq(BOOLEAN)
    OBVIOUS
  <2>2. [conds |-> <<c>>, closed |-> FALSE] \in Group
    BY <2>1 DEF Group
  <2> QED
    BY <2>2
<1>4. Len(cond) = n /\ cond \in Seq(CondFrame) /\ groups \in Seq(Group)
  BY <1>1 DEF Matched
<1>5. cond' = Append(cond, f) /\ groups' = Append(groups, g)
  BY <1>2, <1>3 DEF PushIfdef, Open
<1>6. /\ cond' \in Seq(CondFrame) /\ groups' \in Seq(Group)
      /\ Len(cond') = n + 1 /\ Len(groups') = n + 1
      /\ cond'[n + 1] = f /\ groups'[n + 1] = g
      /\ \A i \in 1 .. n : cond'[i] = cond[i] /\ groups'[i] = groups[i]
  BY <1>1, <1>4, <1>5
<1>7. \A i \in 0 .. n : StandsUpTo(i)' <=> StandsUpTo(i)
  <2>1. ASSUME NEW i \in 0 .. n, NEW j \in 1 .. i
        PROVE  Chosen(groups[j])' <=> Chosen(groups[j])
    <3>1. groups'[j] = groups[j]
      BY <1>6, <2>1
    <3> QED
      BY <3>1 DEF Chosen
  <2> QED
    BY <2>1 DEF StandsUpTo
<1>8. ASSUME NEW i \in 1 .. n
      PROVE  Len(groups'[i].conds) > 0 /\ Tracks(i)'
  <2>1. cond'[i] = cond[i] /\ groups'[i] = groups[i] /\ i - 1 \in 0 .. n /\ i \in 0 .. n
    BY <1>6
  <2>2. Len(groups[i].conds) > 0 /\ Tracks(i)
    BY <1>4 DEF Matched
  <2>3. (StandsUpTo(i)' <=> StandsUpTo(i)) /\ (StandsUpTo(i - 1)' <=> StandsUpTo(i - 1))
    BY <1>7, <2>1
  <2> QED
    BY <2>1, <2>2, <2>3 DEF Tracks, NoneTrue
<1>9. StandsUpTo(n) <=> Emitting(cond)
  BY <1>1, <1>4, MatchedEmits DEF Stands, StandsUpTo
<1>10. (Chosen(g) <=> c) /\ (NoneTrue(g) <=> ~c) /\ Len(g.conds) = 1
  BY <1>3 DEF Chosen, NoneTrue
<1>11. StandsUpTo(n + 1)' <=> StandsUpTo(n) /\ Chosen(g)
  <2>1. 1 .. n + 1 = 1 .. n \cup {n + 1}
    OBVIOUS
  <2> QED
    BY <1>6, <2>1 DEF StandsUpTo, Chosen
<1>12. f.state = "taken" <=> StandsUpTo(n + 1)'
  BY <1>2, <1>9, <1>10, <1>11 DEF NewBlock
<1>13. f.state = "looking" <=> StandsUpTo(n)' /\ NoneTrue(g)
  BY <1>2, <1>7, <1>9, <1>10 DEF NewBlock
<1>14. f.inElse = g.closed
  BY <1>2, <1>3
<1>15. Len(groups'[n + 1].conds) > 0 /\ Tracks(n + 1)'
  BY <1>6, <1>10, <1>12, <1>13, <1>14 DEF Tracks, NoneTrue
<1> QED
  BY <1>6, <1>8, <1>15 DEF Matched

\* An `elsif or an `else: the frame knows whether a branch was chosen before.
LEMMA BranchMatches ==
  ASSUME Matched, cond # <<>>, ~cond[Len(cond)].inElse, NEW c \in BOOLEAN, NEW last \in BOOLEAN,
         cond' = [cond EXCEPT ![Len(cond)] = [state |-> AfterBranch(@.state, c), inElse |-> last]],
         groups' = Branch(groups, c, last)
  PROVE  Matched'
<1>1. PICK n \in Nat : n = Len(groups)
  BY DEF Matched
<1>2. /\ Len(cond) = n /\ n > 0 /\ cond \in Seq(CondFrame) /\ groups \in Seq(Group)
      /\ Len(groups[n].conds) > 0 /\ Tracks(n)
      /\ cond[n] \in CondFrame /\ groups[n] \in Group
  BY <1>1 DEF Matched
<1>3. PICK f \in CondFrame : f = [state |-> AfterBranch(cond[n].state, c), inElse |-> last]
  <2>1. AfterBranch(cond[n].state, c) \in {"taken", "looking", "done"}
    BY DEF AfterBranch
  <2>2. [state |-> AfterBranch(cond[n].state, c), inElse |-> last] \in CondFrame
    BY <2>1 DEF CondFrame
  <2> QED
    BY <2>2
<1>4. PICK conds \in Seq(BOOLEAN) : conds = groups[n].conds /\ Len(conds) > 0
  BY <1>2 DEF Group
<1>5. PICK g \in Group : g = [conds |-> Append(conds, c), closed |-> last]
  <2>1. Append(conds, c) \in Seq(BOOLEAN)
    OBVIOUS
  <2>2. [conds |-> Append(conds, c), closed |-> last] \in Group
    BY <2>1 DEF Group
  <2> QED
    BY <2>2
<1>6. cond' = [cond EXCEPT ![n] = f] /\ groups' = [groups EXCEPT ![n] = g]
  <2>1. groups # <<>> /\ ~groups[n].closed
    BY <1>1, <1>2 DEF Tracks
  <2> QED
    BY <1>1, <1>2, <1>3, <1>4, <1>5, <2>1 DEF Branch
<1>7. /\ cond' \in Seq(CondFrame) /\ groups' \in Seq(Group)
      /\ Len(cond') = n /\ Len(groups') = n
      /\ cond'[n] = f /\ groups'[n] = g
      /\ \A i \in 1 .. n - 1 : cond'[i] = cond[i] /\ groups'[i] = groups[i]
  BY <1>1, <1>2, <1>6
<1>8. \A i \in 0 .. n - 1 : StandsUpTo(i)' <=> StandsUpTo(i)
  <2>1. ASSUME NEW i \in 0 .. n - 1, NEW j \in 1 .. i
        PROVE  Chosen(groups[j])' <=> Chosen(groups[j])
    <3>1. groups'[j] = groups[j]
      BY <1>7, <2>1
    <3> QED
      BY <3>1 DEF Chosen
  <2> QED
    BY <2>1 DEF StandsUpTo
<1>9. ASSUME NEW i \in 1 .. n - 1
      PROVE  Len(groups'[i].conds) > 0 /\ Tracks(i)'
  <2>1. cond'[i] = cond[i] /\ groups'[i] = groups[i] /\ i - 1 \in 0 .. n - 1 /\ i \in 0 .. n - 1
    BY <1>7
  <2>2. Len(groups[i].conds) > 0 /\ Tracks(i)
    <3>1. i \in DOMAIN cond
      BY <1>2
    <3> QED
      BY <3>1 DEF Matched
  <2>3. (StandsUpTo(i)' <=> StandsUpTo(i)) /\ (StandsUpTo(i - 1)' <=> StandsUpTo(i - 1))
    BY <1>8, <2>1
  <2> QED
    BY <2>1, <2>2, <2>3 DEF Tracks, NoneTrue
<1>10. DEFINE none == \A k \in 1 .. Len(conds) : ~conds[k]
<1>11. (NoneTrue(groups[n]) <=> none) /\ (Chosen(groups[n]) => ~none)
  BY <1>4 DEF NoneTrue, Chosen
<1>12. (Chosen(g) <=> none /\ c) /\ (NoneTrue(g) <=> none /\ ~c) /\ Len(g.conds) = Len(conds) + 1
  <2>1. /\ Len(g.conds) = Len(conds) + 1 /\ DOMAIN g.conds = 1 .. Len(conds) + 1
        /\ g.conds[Len(conds) + 1] = c
        /\ \A k \in 1 .. Len(conds) : g.conds[k] = conds[k]
    BY <1>5
  <2>2. PICK m \in Nat : m = Len(conds)
    BY <1>4
  <2>3. 1 .. m + 1 = 1 .. m \cup {m + 1} /\ (m + 1) - 1 = m
    BY SMTT(20)
  <2> QED
    BY <2>1, <2>2, <2>3 DEF Chosen, NoneTrue
<1>13. /\ StandsUpTo(n)' <=> StandsUpTo(n - 1) /\ Chosen(g)
       /\ StandsUpTo(n) <=> StandsUpTo(n - 1) /\ Chosen(groups[n])
  <2>1. 1 .. n = 1 .. n - 1 \cup {n}
    BY <1>2
  <2>2. StandsUpTo(n)' <=> StandsUpTo(n - 1)' /\ Chosen(g)
    BY <1>7, <2>1 DEF StandsUpTo, Chosen
  <2>3. n - 1 \in 0 .. n - 1
    BY <1>2
  <2> QED
    BY <1>8, <2>1, <2>2, <2>3 DEF StandsUpTo
<1> HIDE DEF none
<1>14. cond[n].state = "looking" <=> StandsUpTo(n - 1) /\ none
  BY <1>2, <1>11 DEF Tracks
<1>15. f.state = "taken" <=> StandsUpTo(n)'
  BY <1>3, <1>12, <1>13, <1>14 DEF AfterBranch
<1>16. f.state = "looking" <=> StandsUpTo(n - 1)' /\ NoneTrue(g)
  <2>1. n - 1 \in 0 .. n - 1
    BY <1>2
  <2> QED
    BY <1>3, <1>8, <1>12, <1>14, <2>1 DEF AfterBranch
<1>17. f.inElse = g.closed
  BY <1>3, <1>5
<1>18. Len(groups'[n].conds) > 0 /\ Tracks(n)'
  BY <1>4, <1>7, <1>12, <1>15, <1>16, <1>17 DEF Tracks, NoneTrue
<1>19. 1 .. n = 1 .. n - 1 \cup {n}
  BY <1>2
<1> QED
  BY <1>7, <1>9, <1>18, <1>19 DEF Matched

\* Closing a group leaves the ones around it as they were.
LEMMA CloseMatches ==
  ASSUME Matched, cond # <<>>, cond' = SubSeq(cond, 1, Len(cond) - 1), groups' = Close(groups)
  PROVE  Matched'
<1>1. PICK n \in Nat : n = Len(groups) /\ n > 0
  BY DEF Matched
<1>2. Len(cond) = n /\ cond \in Seq(CondFrame) /\ groups \in Seq(Group)
  BY <1>1 DEF Matched
<1>3. cond' = SubSeq(cond, 1, n - 1) /\ groups' = SubSeq(groups, 1, n - 1)
  BY <1>1, <1>2 DEF Close
<1>4. /\ cond' \in Seq(CondFrame) /\ groups' \in Seq(Group)
      /\ Len(cond') = n - 1 /\ Len(groups') = n - 1
      /\ \A i \in 1 .. n - 1 : cond'[i] = cond[i] /\ groups'[i] = groups[i]
  BY <1>1, <1>2, <1>3
<1>5. \A i \in 0 .. n - 1 : StandsUpTo(i)' <=> StandsUpTo(i)
  <2>1. ASSUME NEW i \in 0 .. n - 1, NEW j \in 1 .. i
        PROVE  Chosen(groups[j])' <=> Chosen(groups[j])
    <3>1. groups'[j] = groups[j]
      BY <1>4, <2>1
    <3> QED
      BY <3>1 DEF Chosen
  <2> QED
    BY <2>1 DEF StandsUpTo
<1>6. ASSUME NEW i \in 1 .. n - 1
      PROVE  Len(groups'[i].conds) > 0 /\ Tracks(i)'
  <2>1. cond'[i] = cond[i] /\ groups'[i] = groups[i] /\ i - 1 \in 0 .. n - 1 /\ i \in 0 .. n - 1
    BY <1>4
  <2>2. Len(groups[i].conds) > 0 /\ Tracks(i)
    BY <1>2 DEF Matched
  <2>3. (StandsUpTo(i)' <=> StandsUpTo(i)) /\ (StandsUpTo(i - 1)' <=> StandsUpTo(i - 1))
    BY <1>5, <2>1
  <2> QED
    BY <2>1, <2>2, <2>3 DEF Tracks, NoneTrue
<1> QED
  BY <1>4, <1>6 DEF Matched

-----------------------------------------------------------------------------
(* Types *)

\* An item, its kind, and what its argument may name.
LEMMA ItemFacts ==
  ASSUME NEW i \in Item
  PROVE  /\ i.arg \in Name
         /\ i.op \in {"ifdef", "ifndef", "elsif", "define", "undef", "use"} => i.arg \in Macros
BY DEF Item, Name, Plain

\* Reading one item leaves buffers, no more of them than there were.
LEMMA AheadType ==
  ASSUME TypeOK, NEW a \in Ahead
  PROVE  a.item \in Item /\ a.frames \in Seq(Buffer) /\ Len(a.frames) = Len(frames)
<1>1. CASE frames = <<>>
  <2>1. PICK i \in Items : a = [item |-> i, frames |-> <<>>]
    BY <1>1 DEF Ahead
  <2>2. i \in Item
    BY ItemAssumption
  <2>3. <<>> \in Seq(Buffer)
    OBVIOUS
  <2> QED
    BY <1>1, <2>1, <2>2, <2>3
<1>2. CASE frames # <<>>
  <2>1. /\ Len(frames) \in Nat /\ Len(frames) \in DOMAIN frames
        /\ buffer \in Buffer /\ frames \in Seq(Buffer)
    BY <1>2 DEF TypeOK, buffer
  <2>2. buffer.rest # <<>> /\ buffer.rest \in Seq(Item)
    BY <1>2, <2>1 DEF Ahead, Buffer
  <2>3. Head(buffer.rest) \in Item /\ Tail(buffer.rest) \in Seq(Item)
    BY <2>2
  <2>4. [frames[Len(frames)] EXCEPT !.rest = Tail(@)] \in Buffer
    BY <2>1, <2>3 DEF Buffer, buffer
  <2>5. a.item = Head(buffer.rest) /\ a.frames = [frames EXCEPT ![Len(frames)].rest = Tail(@)]
    BY <1>2, <2>2 DEF Ahead
  <2> QED
    BY <2>1, <2>3, <2>4, <2>5
<1> QED
  BY <1>1, <1>2

\* The stack and the groups stay stacks of frames and of groups.
LEMMA ConditionalType ==
  ASSUME TypeOK, NEW a \in Ahead, Conditional(a)
  PROVE  cond' \in Seq(CondFrame)
<1> DEFINE n == Len(cond)
<1>1. cond \in Seq(CondFrame)
  BY DEF TypeOK
<1>2. ASSUME NEW c PROVE PushIfdef(cond, c) \in Seq(CondFrame)
  <2>1. NewBlock(c, Emitting(cond)) \in {"taken", "looking", "done"}
    BY DEF NewBlock
  <2>2. [state |-> NewBlock(c, Emitting(cond)), inElse |-> FALSE] \in CondFrame
    BY <2>1 DEF CondFrame
  <2> QED
    BY <1>1, <2>2 DEF PushIfdef
<1>3. ASSUME NEW c, NEW e \in BOOLEAN, cond # <<>>
      PROVE  /\ n \in DOMAIN cond /\ cond[n] \in CondFrame
             /\ [state |-> AfterBranch(cond[n].state, c), inElse |-> e] \in CondFrame
  <2>1. AfterBranch(cond[n].state, c) \in {"taken", "looking", "done"}
    BY DEF AfterBranch
  <2>2. [state |-> AfterBranch(cond[n].state, c), inElse |-> e] \in CondFrame
    BY <2>1 DEF CondFrame
  <2> QED
    BY <1>1, <1>3, <2>2
<1>4. ASSUME NEW c PROVE HandleElsif(cond, c) \in Seq(CondFrame)
  <2>1. CASE cond # <<>>
    <3>1. [cond[n] EXCEPT !.state = AfterBranch(@, c)]
            = [state |-> AfterBranch(cond[n].state, c), inElse |-> cond[n].inElse]
      BY <1>3, <2>1 DEF CondFrame
    <3>2. cond[n].inElse \in BOOLEAN
      BY <1>3, <2>1 DEF CondFrame
    <3> QED
      BY <1>1, <1>3, <2>1, <3>1, <3>2 DEF HandleElsif
  <2> QED
    BY <1>1, <2>1 DEF HandleElsif, Misplaced
<1>5. HandleElse(cond) \in Seq(CondFrame)
  <2>1. CASE cond # <<>>
    <3>1. [state |-> AfterBranch(cond[n].state, TRUE), inElse |-> TRUE] \in CondFrame
      BY <1>3, <2>1
    <3> QED
      BY <1>1, <2>1, <3>1 DEF HandleElse
  <2> QED
    BY <1>1, <2>1 DEF HandleElse, Misplaced
<1>6. HandleEndif(cond) \in Seq(CondFrame)
  BY <1>1 DEF HandleEndif
<1> QED
  BY <1>2, <1>4, <1>5, <1>6 DEF Conditional, PushIfndef

\* The history keeps groups, whatever is read.
LEMMA ObserveType ==
  ASSUME TypeOK, NEW i \in Item, Observe(i)
  PROVE  groups' \in Seq(Group) /\ defining' \in BOOLEAN
<1> DEFINE n == Len(groups)
<1>1. groups \in Seq(Group)
  BY DEF TypeOK
<1>2. ASSUME NEW c \in BOOLEAN PROVE Open(groups, c) \in Seq(Group)
  <2>1. <<c>> \in Seq(BOOLEAN)
    OBVIOUS
  <2>2. [conds |-> <<c>>, closed |-> FALSE] \in Group
    BY <2>1 DEF Group
  <2> QED
    BY <1>1, <2>2 DEF Open
<1>3. ASSUME NEW c \in BOOLEAN, NEW e \in BOOLEAN PROVE Branch(groups, c, e) \in Seq(Group)
  <2>1. CASE groups # <<>>
    <3>1. n \in DOMAIN groups /\ groups[n] \in Group
      BY <1>1, <2>1
    <3>2. Append(groups[n].conds, c) \in Seq(BOOLEAN)
      BY <3>1 DEF Group
    <3>3. [conds |-> Append(groups[n].conds, c), closed |-> e] \in Group
      BY <3>2 DEF Group
    <3> QED
      BY <1>1, <2>1, <3>1, <3>3 DEF Branch
  <2> QED
    BY <1>1, <2>1 DEF Branch
<1>4. Close(groups) \in Seq(Group)
  BY <1>1 DEF Close
<1>5. IsDefined(i.arg) \in BOOLEAN
  BY DEF IsDefined
<1>6. groups' \in Seq(Group)
  BY <1>1, <1>2, <1>3, <1>4, <1>5 DEF Observe
<1>7. defining' \in BOOLEAN
  BY DEF Observe
<1> QED
  BY <1>6, <1>7

\* A table that gains or loses entries is a table.
LEMMA TableType ==
  ASSUME TypeOK, NEW names \in SUBSET Macros, NEW body \in Seq(BodyItem)
  PROVE  /\ DOMAIN TableWith(table, names, body) \subseteq Macros
         /\ TableWith(table, names, body) \in [DOMAIN TableWith(table, names, body) -> Entry]
         /\ DOMAIN TableWithout(table, names) \subseteq Macros
         /\ TableWithout(table, names) \in [DOMAIN TableWithout(table, names) -> Entry]
<1>1. Macro(body) \in Entry
  BY DEF Macro, Entry
<1> QED
  BY <1>1 DEF TypeOK, TableWith, TableWithout

\* Nothing pending, an empty body.
LEMMA NothingPending == NonePending \in [name : Name, body : Seq(BodyItem)] /\ <<>> \in Seq(BodyItem)
<1>1. <<>> \in Seq(BodyItem) /\ NoMacro \in Name
  BY DEF Name
<1> QED
  BY <1>1 DEF NonePending

\* A pushed buffer, and buffers some of whose macros are gone, are buffers.
LEMMA BufferType ==
  ASSUME NEW fs \in Seq(Buffer)
  PROVE  /\ \A m \in Macros \cup {NoMacro} : \A items \in Seq(Item) :
              PushBuffer(fs, m, items) \in Seq(Buffer)
         /\ \A names : Erased(fs, names) \in Seq(Buffer) /\ Len(Erased(fs, names)) = Len(fs)
<1>1. ASSUME NEW m \in Macros \cup {NoMacro}, NEW items \in Seq(Item)
      PROVE  PushBuffer(fs, m, items) \in Seq(Buffer)
  <2>1. [macro |-> m, stale |-> FALSE, rest |-> items] \in Buffer
    BY DEF Buffer
  <2> QED
    BY <2>1 DEF PushBuffer
<1>2. ASSUME NEW names PROVE Erased(fs, names) \in Seq(Buffer) /\ Len(Erased(fs, names)) = Len(fs)
  <2>1. ASSUME NEW i \in 1 .. Len(fs)
        PROVE  fs[i] \in Buffer /\ [fs[i] EXCEPT !.stale = TRUE] \in Buffer
    <3>1. PICK b \in Buffer : b = fs[i]
      OBVIOUS
    <3>2. [b EXCEPT !.stale = TRUE] \in Buffer
      BY DEF Buffer
    <3> QED
      BY <3>1, <3>2
  <2>2. Erased(fs, names)
          = [i \in 1 .. Len(fs) |-> IF fs[i].macro \in names THEN [fs[i] EXCEPT !.stale = TRUE]
                                                            ELSE fs[i]]
    BY DEF Erased
  <2> QED
    BY <2>1, <2>2
<1> QED
  BY <1>1, <1>2

\* An entry that counts one expansion more, or less, is an entry.
LEMMA EntryType ==
  ASSUME NEW e \in Entry
  PROVE  [e EXCEPT !.depth = @ + 1] \in Entry /\ [e EXCEPT !.depth = @ - 1] \in Entry
<1>1. e.depth \in Int
  BY DEF Entry
<1>2. e.depth + 1 \in Int /\ e.depth - 1 \in Int
  BY <1>1
<1> QED
  BY <1>2 DEF Entry

\* What a body is made of is what the scanner reads.
LEMMA BodyType ==
  /\ Seq(BodyItem) \subseteq Seq(Item)
  /\ \A i \in Item : i.op # "cont" => i \in BodyItem
  /\ [op |-> "eol", arg |-> NoMacro] \in BodyItem
<1>1. BodyItem \subseteq Item
  BY DEF BodyItem
<1>2. [op |-> "eol", arg |-> NoMacro] \in Item
  BY DEF Item, Plain
<1> QED
  BY <1>1, <1>2 DEF BodyItem

\* A body that grows by an item.
LEMMA PendingType ==
  ASSUME NEW p \in [name : Name, body : Seq(BodyItem)], NEW i \in BodyItem
  PROVE  LET q == [p EXCEPT !.body = Append(@, i)]
         IN  q \in [name : Name, body : Seq(BodyItem)] /\ q.name = p.name
<1>1. p.body \in Seq(BodyItem)
  OBVIOUS
<1>2. Append(p.body, i) \in Seq(BodyItem)
  BY <1>1
<1> QED
  BY <1>2

\* One item, read and acted upon.
LEMMA ReadType ==
  ASSUME TypeOK, NEW a \in Ahead,
         \/ Emit(a) \/ Conditional(a) \/ SkipDirective(a) \/ SkipToEol(a)
         \/ Define(a) \/ DefineBody(a) \/ DefineFinish(a)
         \/ Undef(a) \/ UndefineAll(a)
         \/ IncludeArg(a) \/ TailJunk(a) \/ IncludeOpen(a)
         \/ Expand(a),
         Observe(a.item), UNCHANGED answer
  PROVE  TypeOK'
<1> USE AheadType, ItemFacts, NothingPending DEF TypeOK
<1>0. groups' \in Seq(Group) /\ defining' \in BOOLEAN
  BY ObserveType
<1>1. CASE Emit(a)
  BY <1>0, <1>1 DEF Emit
<1>2. CASE Conditional(a)
  BY <1>0, <1>2, ConditionalType DEF Conditional
<1>3. CASE SkipDirective(a)
  BY <1>0, <1>3 DEF SkipDirective
<1>4. CASE SkipToEol(a)
  BY <1>0, <1>4 DEF SkipToEol
<1>5. CASE Define(a)
  <2>1. a.item.arg \in Macros /\ a.item.arg \in Name
    BY <1>5 DEF Define, Act, Read
  <2> QED
    BY <1>0, <1>5, <2>1 DEF Define
<1>6. CASE DefineBody(a)
  <2> DEFINE i == IF a.item.op = "cont" THEN [op |-> "eol", arg |-> NoMacro] ELSE a.item
  <2>1. i \in BodyItem
    BY BodyType
  <2> HIDE DEF i
  <2>2. pending' = [pending EXCEPT !.body = Append(@, i)]
    BY <1>6 DEF DefineBody, i
  <2>3. pending' \in [name : Name, body : Seq(BodyItem)] /\ pending'.name = pending.name
    BY <2>1, <2>2, PendingType
  <2> QED
    BY <1>0, <1>6, <2>3 DEF DefineBody
<1>7. CASE DefineFinish(a)
  <2>1. {pending.name} \in SUBSET Macros /\ pending.body \in Seq(BodyItem)
    BY <1>7 DEF DefineFinish
  <2> QED
    BY <1>0, <1>7, <2>1, TableType DEF DefineFinish
<1>8. CASE Undef(a)
  <2>1. {a.item.arg} \in SUBSET Macros
    BY <1>8 DEF Undef, Act, Read
  <2> QED
    BY <1>0, <1>8, <2>1, TableType, BufferType DEF Undef
<1>9. CASE UndefineAll(a)
  BY <1>0, <1>9, TableType, BufferType DEF UndefineAll
<1>10. CASE IncludeArg(a)
  BY <1>0, <1>10 DEF IncludeArg
<1>11. CASE TailJunk(a)
  BY <1>0, <1>11 DEF TailJunk
<1>12. CASE IncludeOpen(a)
  <2>1. pending.name \in DOMAIN Text => Text[pending.name] \in Seq(Item)
    BY ItemAssumption
  <2>2. frames' \in Seq(Buffer)
    BY <1>12, <2>1, BufferType DEF IncludeOpen
  <2> QED
    BY <1>0, <1>12, <2>2 DEF IncludeOpen
<1>13. CASE Expand(a)
  <2> DEFINE m == a.item.arg
  <2>1. m \in Macros /\ m \in DOMAIN table /\ table[m] \in Entry
    BY <1>13 DEF Expand, Act, Read, IsDefined
  <2>2. table[m].body \in Seq(Item)
    BY <2>1, BodyType DEF Entry
  <2>3. frames' \in Seq(Buffer)
    BY <1>13, <2>1, <2>2, BufferType DEF Expand
  <2>4. DOMAIN table' = DOMAIN table /\ table' \in [DOMAIN table -> Entry]
    <3>1. [table[m] EXCEPT !.depth = @ + 1] \in Entry
      BY <2>1, EntryType
    <3> QED
      BY <1>13, <2>1, <3>1 DEF Expand
  <2> QED
    BY <1>0, <1>13, <2>3, <2>4 DEF Expand
<1> QED
  BY <1>1, <1>2, <1>3, <1>4, <1>5, <1>6, <1>7, <1>8, <1>9, <1>10, <1>11, <1>12, <1>13

\* The end of a buffer: an entry of the table counts one expansion less.
LEMMA PopType == TypeOK /\ PopBuffer /\ UNCHANGED answer => TypeOK'
<1> SUFFICES ASSUME TypeOK, PopBuffer, UNCHANGED answer PROVE TypeOK'
  OBVIOUS
<1>1. frames' \in Seq(Buffer)
  BY DEF TypeOK, PopBuffer
<1>2. DOMAIN table' = DOMAIN table /\ table' \in [DOMAIN table -> Entry]
  <2> DEFINE m == buffer.macro
  <2>1. CASE IsDefined(m) /\ table' = [table EXCEPT ![m].depth = @ - 1]
    <3>1. table[m] \in Entry
      BY <2>1 DEF TypeOK, IsDefined
    <3>2. [table[m] EXCEPT !.depth = @ - 1] \in Entry
      BY <3>1, EntryType
    <3> QED
      BY <2>1, <3>2 DEF TypeOK
  <2> QED
    BY <2>1 DEF TypeOK, PopBuffer
<1> QED
  BY <1>1, <1>2 DEF TypeOK, PopBuffer

\* The scanner keeps the types it starts with, for every macro, file and limit.
THEOREM TypesHold == Spec => []TypeOK
<1>1. Init => TypeOK
  <2> SUFFICES ASSUME Init PROVE TypeOK
    OBVIOUS
  <2>1. Macro(<<>>) \in Entry
    BY NothingPending DEF Macro, Entry
  <2>2. table \in [DOMAIN table -> Entry] /\ DOMAIN table \subseteq Macros
    BY <2>1, PredefinedAssumption DEF Init, Installed, TableWith
  <2>3. cond \in Seq(CondFrame) /\ frames \in Seq(Buffer) /\ groups \in Seq(Group)
    BY DEF Init
  <2> QED
    BY <2>2, <2>3, NothingPending DEF Init, TypeOK
<1>2. TypeOK /\ [Next]_vars => TypeOK'
  <2> SUFFICES ASSUME TypeOK, [Next]_vars PROVE TypeOK'
    OBVIOUS
  <2>1. CASE Scan /\ UNCHANGED answer
    BY <2>1, ReadType, PopType DEF Scan
  <2>2. CASE EndOfFile
    BY <2>2 DEF EndOfFile, TypeOK
  <2>3. CASE NextFile
    <3>1. Predefined \in SUBSET Macros
      BY PredefinedAssumption
    <3> QED
      BY <2>3, <3>1, TableType, NothingPending DEF NextFile, Installed, TypeOK
  <2>4. CASE UNCHANGED vars
    BY <2>4 DEF vars, TypeOK
  <2> QED
    BY <2>1, <2>2, <2>3, <2>4 DEF Next
<1> QED
  BY <1>1, <1>2, PTL DEF Spec

-----------------------------------------------------------------------------
(* What is emitted stands *)

\* The code and the history reject the same branches.
LEMMA MisplacedAlike ==
  ASSUME Matched
  PROVE  /\ cond = <<>> <=> groups = <<>>
         /\ Misplaced(cond) <=> groups = <<>> \/ groups[Len(groups)].closed
<1>1. cond = <<>> <=> groups = <<>>
  BY DEF Matched
<1>2. cond # <<>> => cond[Len(cond)].inElse = groups[Len(groups)].closed
  BY DEF Matched, Tracks
<1> QED
  BY <1>1, <1>2 DEF Misplaced

\* A conditional directive keeps the frames and the groups together.
LEMMA ConditionalStep ==
  ASSUME Inv, NEW a \in Ahead, Conditional(a), Observe(a.item)
  PROVE  Matched'
<1>1. Matched /\ mode = "initial" /\ ~defining
  BY DEF Inv, LineInv, Conditional, Read
<1> DEFINE c == IsDefined(a.item.arg)
<1>2. c \in BOOLEAN /\ (~c) \in BOOLEAN
  BY DEF IsDefined
<1> HIDE DEF c
<1>3. cond' = cond /\ groups' = groups => Matched'
  BY <1>1 DEF Matched, Tracks, StandsUpTo, Chosen, NoneTrue
<1>4. CASE a.item.op = "ifdef"
  BY <1>1, <1>2, <1>4, OpenMatches DEF Conditional, Read, Observe, c
<1>5. CASE a.item.op = "ifndef"
  BY <1>1, <1>2, <1>5, OpenMatches DEF Conditional, Read, Observe, PushIfndef, c
<1>6. CASE a.item.op = "elsif"
  <2>1. cond' = HandleElsif(cond, c) /\ groups' = Branch(groups, c, FALSE)
    BY <1>1, <1>6 DEF Conditional, Read, Observe, c
  <2>2. CASE Misplaced(cond)
    BY <1>1, <1>3, <2>1, <2>2, MisplacedAlike DEF HandleElsif, Branch
  <2>3. CASE ~Misplaced(cond)
    <3>1. cond # <<>> /\ cond[Len(cond)] \in CondFrame /\ ~cond[Len(cond)].inElse
      BY <1>1, <2>3 DEF Misplaced, Matched
    <3>2. [cond[Len(cond)] EXCEPT !.state = AfterBranch(@, c)]
            = [state |-> AfterBranch(cond[Len(cond)].state, c), inElse |-> FALSE]
      <4>1. cond[Len(cond)].inElse = FALSE
        BY <3>1 DEF CondFrame
      <4>2. [cond[Len(cond)] EXCEPT !.state = AfterBranch(@, c)]
              = [state |-> AfterBranch(cond[Len(cond)].state, c), inElse |-> cond[Len(cond)].inElse]
        BY <3>1 DEF CondFrame
      <4> QED
        BY <4>1, <4>2
    <3>3. cond' = [cond EXCEPT ![Len(cond)] = [state |-> AfterBranch(@.state, c), inElse |-> FALSE]]
      BY <2>1, <2>3, <3>2 DEF HandleElsif
    <3> QED
      BY <1>1, <1>2, <2>1, <3>1, <3>3, BranchMatches
  <2> QED
    BY <2>2, <2>3
<1>7. CASE a.item.op = "else"
  <2>1. cond' = HandleElse(cond) /\ groups' = Branch(groups, TRUE, TRUE)
    BY <1>1, <1>7 DEF Conditional, Read, Observe
  <2>2. CASE Misplaced(cond)
    BY <1>1, <1>3, <2>1, <2>2, MisplacedAlike DEF HandleElse, Branch
  <2>3. CASE ~Misplaced(cond)
    BY <1>1, <2>1, <2>3, BranchMatches DEF HandleElse, Misplaced
  <2> QED
    BY <2>2, <2>3
<1>8. CASE a.item.op = "endif"
  <2>1. cond' = HandleEndif(cond) /\ groups' = Close(groups)
    BY <1>1, <1>8 DEF Conditional, Read, Observe
  <2>2. CASE cond = <<>>
    BY <1>1, <1>3, <2>1, <2>2, MisplacedAlike DEF HandleEndif, Close
  <2>3. CASE cond # <<>>
    BY <1>1, <2>1, <2>3, CloseMatches DEF HandleEndif
  <2> QED
    BY <2>2, <2>3
<1> QED
  BY <1>4, <1>5, <1>6, <1>7, <1>8 DEF Conditional, Read

\* What is read but not scanned as a conditional directive opens and closes nothing.
LEMMA OtherStep ==
  ASSUME ~SharedLines, TypeOK, Inv, NEW i, OneDirective(i), Observe(i),
         mode = "initial" => i.op \notin Conditionals, UNCHANGED cond
  PROVE  Matched'
<1>1. groups' = groups
  <2>1. CASE defining
    BY <2>1 DEF Observe
  <2>2. CASE ~defining
    <3>1. i.op \notin Conditionals
      BY <2>2 DEF OneDirective, TypeOK, Inv, LineInv
    <3> QED
      BY <2>2, <3>1 DEF Observe, Conditionals
  <2> QED
    BY <2>1, <2>2
<1> QED
  BY <1>1 DEF Inv, Matched, Tracks, StandsUpTo, Chosen, NoneTrue

\* One item, read and acted upon, on lines that hold at most one directive.
LEMMA ReadKeeps ==
  ASSUME ~SharedLines, TypeOK, Inv, NEW a \in Ahead, OneDirective(a.item),
         \/ Emit(a) \/ Conditional(a) \/ SkipDirective(a) \/ SkipToEol(a)
         \/ Define(a) \/ DefineBody(a) \/ DefineFinish(a)
         \/ Undef(a) \/ UndefineAll(a)
         \/ IncludeArg(a) \/ TailJunk(a) \/ IncludeOpen(a)
         \/ Expand(a),
         Observe(a.item)
  PROVE  Inv'
<1> USE DEF Act, Read, Plain, Conditionals, Others
<1>1. Matched'
  <2>1. CASE Conditional(a)
    BY <2>1, ConditionalStep
  <2>2. CASE ~Conditional(a)
    <3>1. UNCHANGED cond /\ (mode = "initial" => a.item.op \notin Conditionals)
      BY <2>2 DEF Emit, SkipDirective, SkipToEol, Define, DefineBody, DefineFinish,
                  Undef, UndefineAll, IncludeArg, TailJunk, IncludeOpen, Expand
    <3> QED
      BY <3>1, OtherStep
  <2> QED
    BY <2>1, <2>2
<1>2. defining' <=> a.item.op # "eol" /\ (defining \/ a.item.op = "define")
  BY DEF Observe
<1>3. /\ defining => mode \in {"define", "skip"}
      /\ mode = "define" => defining
      /\ mode \in {"define", "tail"} => Emitting(cond)
  BY DEF Inv, LineInv
<1>4. defining' => mode' \in {"define", "skip"}
  BY <1>2, <1>3 DEF Emit, Conditional, SkipDirective, SkipToEol, Define, DefineBody, DefineFinish,
                    Undef, UndefineAll, IncludeArg, TailJunk, IncludeOpen, Expand
<1>5. mode' = "define" => defining'
  BY <1>2, <1>3 DEF Emit, Conditional, SkipDirective, SkipToEol, Define, DefineBody, DefineFinish,
                    Undef, UndefineAll, IncludeArg, TailJunk, IncludeOpen, Expand
<1>6. mode' \in {"define", "tail"} => cond' = cond /\ Emitting(cond)
  BY <1>3 DEF Emit, Conditional, SkipDirective, SkipToEol, Define, DefineBody, DefineFinish,
              Undef, UndefineAll, IncludeArg, TailJunk, IncludeOpen, Expand
<1>7. mode' \in {"define", "tail"} => Emitting(cond)'
  BY <1>6 DEF Emitting
<1> QED
  BY <1>1, <1>4, <1>5, <1>7 DEF Inv, LineInv

\* With nothing read of the text, the stack and the groups stay together.
LEMMA StillMatched == Matched /\ UNCHANGED <<cond, groups>> => Matched'
BY DEF Matched, Tracks, StandsUpTo, Chosen, NoneTrue

\* On lines of at most one directive the stack of the code says, at every step of
\* every file, what the history of the text says.
THEOREM InvHolds == ASSUME ~SharedLines PROVE Spec => []Inv
<1>1. Init => Inv
  BY DEF Init, Inv, Matched, LineInv
<1>2. TypeOK /\ Inv /\ [Next]_vars => Inv'
  <2> SUFFICES ASSUME TypeOK, Inv, [Next]_vars PROVE Inv'
    OBVIOUS
  <2>1. CASE Scan
    <3>1. CASE PopBuffer
      <4>1. UNCHANGED <<cond, groups, mode, defining>>
        BY <3>1 DEF PopBuffer
      <4> QED
        BY <4>1, StillMatched DEF Inv, LineInv, Emitting
    <3> QED
      BY <2>1, <3>1, ReadKeeps DEF Scan
  <2>2. CASE EndOfFile \/ UNCHANGED vars
    <3>1. UNCHANGED <<cond, groups, mode, defining>>
      BY <2>2 DEF EndOfFile, vars
    <3> QED
      BY <3>1, StillMatched DEF Inv, LineInv, Emitting
  <2>3. CASE NextFile
    <3>1. UNCHANGED <<cond, groups>> /\ mode' = "initial" /\ ~defining'
      BY <2>3 DEF NextFile
    <3> QED
      BY <3>1, StillMatched DEF Inv, LineInv
  <2> QED
    BY <2>1, <2>2, <2>3 DEF Next
<1> QED
  BY <1>1, <1>2, TypesHold, PTL DEF Spec

\* Text is emitted exactly when it stands, however deep the groups, the includes
\* and the expansions.
THEOREM EmitsRight == ASSUME ~SharedLines PROVE Spec => []EmitsWhatStands
<1>1. Inv => EmitsWhatStands
  BY MatchedEmits DEF Inv, EmitsWhatStands
<1> QED
  BY <1>1, InvHolds, PTL

\* A file is refused exactly when it leaves a group open.
THEOREM EndsRight == ASSUME ~SharedLines PROVE Spec => []UnterminatedReported
<1>1. Init => UnterminatedReported
  BY DEF Init, UnterminatedReported
<1>2. Inv /\ UnterminatedReported /\ [Next]_vars => UnterminatedReported'
  <2> SUFFICES ASSUME Inv, UnterminatedReported, [Next]_vars PROVE UnterminatedReported'
    OBVIOUS
  <2>1. CASE answer = "running" /\ Scan /\ UNCHANGED answer
    BY <2>1 DEF UnterminatedReported
  <2>2. CASE EndOfFile
    BY <2>2, MisplacedAlike DEF EndOfFile, Inv, UnterminatedReported
  <2>3. CASE NextFile
    BY <2>3 DEF NextFile, UnterminatedReported
  <2>4. CASE UNCHANGED vars
    BY <2>4 DEF vars, UnterminatedReported
  <2> QED
    BY <2>1, <2>2, <2>3, <2>4 DEF Next
<1> QED
  BY <1>1, <1>2, InvHolds, PTL DEF Spec

\* One item read in text that is not emitted defines, expands and opens nothing.
LEMMA ReadSkips ==
  ASSUME TypeOK, Inv, ~Emitting(cond), NEW a \in Ahead,
         \/ Emit(a) \/ Conditional(a) \/ SkipDirective(a) \/ SkipToEol(a)
         \/ Define(a) \/ DefineBody(a) \/ DefineFinish(a)
         \/ Undef(a) \/ UndefineAll(a)
         \/ IncludeArg(a) \/ TailJunk(a) \/ IncludeOpen(a)
         \/ Expand(a)
  PROVE  Len(frames') = Len(frames) /\ table' = table
<1>1. Emit(a) \/ Conditional(a) \/ SkipDirective(a) \/ SkipToEol(a) \/ TailJunk(a)
  BY DEF Inv, LineInv, Define, DefineBody, DefineFinish, Undef, UndefineAll, IncludeArg,
         IncludeOpen, Expand, Act
<1>2. frames' = a.frames /\ table' = table
  BY <1>1 DEF Emit, Conditional, SkipDirective, SkipToEol, TailJunk
<1> QED
  BY <1>2, AheadType

\* In an inactive branch no directive takes effect.
THEOREM SkipsRight == ASSUME ~SharedLines PROVE Spec => SkippedHasNoEffect
<1> DEFINE NoEffect ==
      /\ Len(frames') <= Len(frames)
      /\ DOMAIN table' = DOMAIN table
      /\ \A m \in DOMAIN table : table'[m].body = table[m].body
<1>1. TypeOK /\ Inv /\ UnterminatedReported /\ [Next]_vars => [~Stands(groups) => NoEffect]_vars
  <2> SUFFICES ASSUME TypeOK, Inv, UnterminatedReported, Next, ~Stands(groups) PROVE NoEffect
    OBVIOUS
  <2>1. ~Emitting(cond)
    BY MatchedEmits DEF Inv
  <2>2. Len(frames) \in Nat /\ frames \in Seq(Buffer) /\ table \in [DOMAIN table -> Entry]
    BY DEF TypeOK
  <2>3. CASE PopBuffer
    <3>1. Len(frames') <= Len(frames)
      BY <2>2, <2>3 DEF PopBuffer
    <3>2. CASE table' = [table EXCEPT ![buffer.macro].depth = @ - 1]
      <4>1. ASSUME NEW m \in DOMAIN table PROVE table'[m].body = table[m].body
        <5>1. PICK e \in Entry : e = table[m]
          BY <2>2
        <5>2. [e EXCEPT !.depth = @ - 1].body = e.body
          BY DEF Entry
        <5> QED
          BY <3>2, <5>1, <5>2
      <4> QED
        BY <3>1, <3>2, <4>1
    <3> QED
      BY <2>3, <3>1, <3>2 DEF PopBuffer
  <2>4. CASE Scan /\ ~PopBuffer
    <3>1. Len(frames') = Len(frames) /\ table' = table
      BY <2>1, <2>4, ReadSkips DEF Scan
    <3> QED
      BY <2>2, <3>1
  <2>5. CASE EndOfFile
    BY <2>2, <2>5 DEF EndOfFile
  <2>6. CASE NextFile
    <3>1. groups = <<>>
      BY <2>6 DEF NextFile, UnterminatedReported
    <3> QED
      BY <3>1 DEF Stands
  <2> QED
    BY <2>3, <2>4, <2>5, <2>6 DEF Next
<1> QED
  BY <1>1, TypesHold, InvHolds, EndsRight, PTL DEF Spec, SkippedHasNoEffect

-----------------------------------------------------------------------------
(* Expansions open at once *)

\* A directive that touches the entry of a macro, or opens a file.
Redefining == {"define", "undef", "undefineall", "include"}

Harmless(items) == \A i \in DOMAIN items : items[i].op \notin Redefining

\* The line ends in the text, and nothing before its end redefines anything.
Closing(items) ==
  \E k \in DOMAIN items : items[k].op = "eol" /\ \A j \in 1 .. k - 1 : items[j].op \notin Redefining

Tame(items) ==
  \A i \in DOMAIN items : items[i].op = "define" =>
    \E k \in DOMAIN items :
      k > i /\ items[k].op = "eol" /\ \A j \in i + 1 .. k - 1 : items[j].op \notin Redefining

\* No macro has a body that defines, undefines or includes anything: the text
\* after a `define, to the end of its line, holds no such directive.
InertBodies ==
  /\ \A i \in BodyItems : i.op \notin Redefining
  /\ \A f \in DOMAIN Text : Tame(Text[f])

OpenOf(m) == {i \in DOMAIN frames : frames[i].macro = m}

\* The expansions lie above the files, none of them refers to an entry that is
\* gone, and an entry counts those of its macro.
FramesInv ==
  \A i \in DOMAIN frames :
    /\ ~frames[i].stale
    /\ frames[i].macro = NoMacro =>
         Tame(frames[i].rest) /\ \A j \in 1 .. i : frames[j].macro = NoMacro
    /\ frames[i].macro # NoMacro =>
         /\ Harmless(frames[i].rest)
         /\ frames[i].macro \in DOMAIN table
         /\ mode \notin {"define", "tail"}

TableInv ==
  \A m \in DOMAIN table :
    /\ Harmless(table[m].body)
    /\ table[m].depth = Cardinality(OpenOf(m))
    /\ table[m].depth <= MaxDepth

DepthInv ==
  /\ FramesInv
  /\ TableInv
  /\ mode = "define" => Harmless(pending.body) /\ (frames # <<>> => Closing(buffer.rest))
  /\ answer # "running" => frames = <<>>

\* What is left of a text once its first item is read.
LEMMA TailTame ==
  ASSUME NEW items \in Seq(Item), items # <<>>
  PROVE  /\ Tame(items) => Tame(Tail(items))
         /\ Tame(items) /\ Head(items).op = "define" => Closing(Tail(items))
         /\ Harmless(items) => Harmless(Tail(items)) /\ Head(items).op \notin Redefining
         /\ Closing(items) /\ Head(items).op # "eol" =>
              Closing(Tail(items)) /\ Head(items).op \notin Redefining
<1> DEFINE n == Len(items)
<1>1. /\ n \in Nat /\ n > 0 /\ DOMAIN items = 1 .. n /\ DOMAIN Tail(items) = 1 .. n - 1
      /\ Head(items) = items[1]
      /\ \A i \in 1 .. n - 1 : Tail(items)[i] = items[i + 1]
  OBVIOUS
<1> HIDE DEF n
<1>2. ASSUME NEW i \in 1 .. n, NEW k \in 1 .. n, k > i,
             items[k].op = "eol", \A j \in i + 1 .. k - 1 : items[j].op \notin Redefining
      PROVE  /\ k - 1 \in 1 .. n - 1 /\ Tail(items)[k - 1].op = "eol"
             /\ \A j \in i .. (k - 1) - 1 : Tail(items)[j].op \notin Redefining
  <2>1. k - 1 \in 1 .. n - 1 /\ (k - 1) + 1 = k
    BY <1>1, <1>2
  <2>2. ASSUME NEW j \in i .. (k - 1) - 1 PROVE Tail(items)[j].op \notin Redefining
    <3>1. j + 1 \in i + 1 .. k - 1 /\ j \in 1 .. n - 1
      BY <1>1, <2>1
    <3> QED
      BY <1>1, <1>2, <3>1
  <2> QED
    BY <1>1, <1>2, <2>1, <2>2
<1>3. ASSUME Tame(items) PROVE Tame(Tail(items))
  <2> SUFFICES ASSUME NEW i \in 1 .. n - 1, Tail(items)[i].op = "define"
               PROVE  \E k \in 1 .. n - 1 :
                        /\ k > i /\ Tail(items)[k].op = "eol"
                        /\ \A j \in i + 1 .. k - 1 : Tail(items)[j].op \notin Redefining
    BY <1>1 DEF Tame
  <2>1. i + 1 \in 1 .. n /\ items[i + 1].op = "define"
    BY <1>1
  <2>2. PICK k \in 1 .. n : k > i + 1 /\ items[k].op = "eol"
                            /\ \A j \in (i + 1) + 1 .. k - 1 : items[j].op \notin Redefining
    BY <1>1, <1>3, <2>1 DEF Tame
  <2>3. /\ k - 1 \in 1 .. n - 1 /\ Tail(items)[k - 1].op = "eol"
        /\ \A j \in i + 1 .. (k - 1) - 1 : Tail(items)[j].op \notin Redefining
    BY <1>2, <2>1, <2>2
  <2>4. k - 1 > i
    BY <1>1, <2>2
  <2> QED
    BY <2>3, <2>4
<1>4. ASSUME Tame(items), Head(items).op = "define" PROVE Closing(Tail(items))
  <2>1. PICK k \in 1 .. n : k > 1 /\ items[k].op = "eol"
                            /\ \A j \in 1 + 1 .. k - 1 : items[j].op \notin Redefining
    BY <1>1, <1>4 DEF Tame
  <2>2. /\ k - 1 \in 1 .. n - 1 /\ Tail(items)[k - 1].op = "eol"
        /\ \A j \in 1 .. (k - 1) - 1 : Tail(items)[j].op \notin Redefining
    BY <1>1, <1>2, <2>1
  <2> QED
    BY <1>1, <2>2 DEF Closing
<1>5. ASSUME Closing(items), Head(items).op # "eol"
      PROVE  Closing(Tail(items)) /\ Head(items).op \notin Redefining
  <2>1. PICK k \in 1 .. n : items[k].op = "eol" /\ \A j \in 1 .. k - 1 : items[j].op \notin Redefining
    BY <1>1, <1>5 DEF Closing
  <2>2. k > 1 /\ 1 \in 1 .. k - 1
    BY <1>1, <1>5, <2>1
  <2>3. /\ k - 1 \in 1 .. n - 1 /\ Tail(items)[k - 1].op = "eol"
        /\ \A j \in 1 .. (k - 1) - 1 : Tail(items)[j].op \notin Redefining
    BY <1>1, <1>2, <2>1, <2>2
  <2> QED
    BY <1>1, <2>1, <2>2, <2>3 DEF Closing
<1>6. ASSUME Harmless(items) PROVE Harmless(Tail(items)) /\ Head(items).op \notin Redefining
  <2>1. ASSUME NEW i \in 1 .. n - 1 PROVE Tail(items)[i].op \notin Redefining
    <3>1. i + 1 \in 1 .. n
      BY <1>1
    <3> QED
      BY <1>1, <1>6, <3>1 DEF Harmless
  <2> QED
    BY <1>1, <1>6, <2>1 DEF Harmless
<1> QED
  BY <1>3, <1>4, <1>5, <1>6

\* Reading an item leaves the buffers as they are but for what is left of the
\* innermost one.
LEMMA AheadFrames ==
  ASSUME TypeOK, DepthInv, NEW a \in Ahead
  PROVE  /\ DOMAIN a.frames = DOMAIN frames
         /\ \A i \in DOMAIN frames : a.frames[i].macro = frames[i].macro /\ ~a.frames[i].stale
         /\ \A i \in DOMAIN frames : frames[i].macro = NoMacro => Tame(a.frames[i].rest)
         /\ \A i \in DOMAIN frames : frames[i].macro # NoMacro => Harmless(a.frames[i].rest)
         /\ frames = <<>> => a.frames = <<>> /\ a.item \in Items
         /\ frames # <<>> =>
              /\ a.item.op \in Redefining => buffer.macro = NoMacro
              /\ a.item.op = "define" => Closing(a.frames[Len(frames)].rest)
              /\ Closing(buffer.rest) /\ a.item.op # "eol" =>
                   Closing(a.frames[Len(frames)].rest) /\ a.item.op \notin Redefining
<1>1. CASE frames = <<>>
  BY <1>1 DEF Ahead
<1>2. CASE frames # <<>>
  <2> DEFINE n == Len(frames)
  <2>1. /\ n \in Nat /\ n > 0 /\ DOMAIN frames = 1 .. n /\ n \in DOMAIN frames
        /\ buffer = frames[n] /\ frames[n] \in Buffer /\ \A i \in 1 .. n : frames[i] \in Buffer
    BY <1>2 DEF TypeOK, buffer
  <2>2. /\ frames[n].rest \in Seq(Item) /\ frames[n].rest # <<>>
        /\ a.item = Head(frames[n].rest)
        /\ a.frames = [frames EXCEPT ![n] = [frames[n] EXCEPT !.rest = Tail(@)]]
    <3>1. buffer.rest # <<>>
      BY <1>2 DEF Ahead
    <3>2. a = [item |-> Head(buffer.rest), frames |-> [frames EXCEPT ![n].rest = Tail(@)]]
      BY <1>2, <3>1 DEF Ahead
    <3>3. frames[n].rest \in Seq(Item)
      BY <2>1 DEF Buffer
    <3> QED
      BY <2>1, <3>1, <3>2, <3>3
  <2>3. PICK b \in Buffer : b = [frames[n] EXCEPT !.rest = Tail(@)]
    <3>1. Tail(frames[n].rest) \in Seq(Item)
      BY <2>2
    <3> QED
      BY <2>1, <3>1 DEF Buffer
  <2>4. b.macro = frames[n].macro /\ b.stale = frames[n].stale /\ b.rest = Tail(frames[n].rest)
    BY <2>1, <2>3 DEF Buffer
  <2>5. /\ DOMAIN a.frames = 1 .. n /\ a.frames[n] = b
        /\ \A i \in 1 .. n : i # n => a.frames[i] = frames[i]
    BY <2>1, <2>2, <2>3
  <2>6. \A i \in 1 .. n :
          /\ ~frames[i].stale
          /\ frames[i].macro = NoMacro => Tame(frames[i].rest)
          /\ frames[i].macro # NoMacro => Harmless(frames[i].rest)
    BY <2>1 DEF DepthInv, FramesInv
  <2>7. /\ Tame(frames[n].rest) => Tame(b.rest)
        /\ Tame(frames[n].rest) /\ a.item.op = "define" => Closing(b.rest)
        /\ Harmless(frames[n].rest) => Harmless(b.rest) /\ a.item.op \notin Redefining
        /\ Closing(frames[n].rest) /\ a.item.op # "eol" => Closing(b.rest) /\ a.item.op \notin Redefining
    BY <2>2, <2>4, TailTame
  <2>8. \A i \in 1 .. n :
          /\ a.frames[i].macro = frames[i].macro /\ ~a.frames[i].stale
          /\ frames[i].macro = NoMacro => Tame(a.frames[i].rest)
          /\ frames[i].macro # NoMacro => Harmless(a.frames[i].rest)
    BY <2>4, <2>5, <2>6, <2>7
  <2>9. a.item.op \in Redefining => frames[n].macro = NoMacro
    BY <2>1, <2>6, <2>7
  <2>10. a.item.op = "define" => Closing(b.rest)
    BY <2>1, <2>6, <2>7, <2>9 DEF Redefining
  <2> QED
    BY <1>2, <2>1, <2>5, <2>7, <2>8, <2>9, <2>10
<1> QED
  BY <1>1, <1>2

\* The expansions of a macro are finitely many, and one more or one less when a
\* buffer is pushed or popped.
LEMMA OpenCount ==
  ASSUME TypeOK, NEW m
  PROVE  /\ IsFiniteSet(OpenOf(m)) /\ Cardinality(OpenOf(m)) \in Nat
         /\ \A i \in DOMAIN frames :
              /\ frames[i].macro = m => Cardinality(OpenOf(m) \ {i}) = Cardinality(OpenOf(m)) - 1
              /\ frames[i].macro # m => OpenOf(m) \ {i} = OpenOf(m)
         /\ Cardinality(OpenOf(m) \cup {Len(frames) + 1}) = Cardinality(OpenOf(m)) + 1
<1>1. Len(frames) \in Nat /\ DOMAIN frames = 1 .. Len(frames)
  BY DEF TypeOK
<1>2. IsFiniteSet(1 .. Len(frames))
  BY <1>1, FS_Interval
<1>3. IsFiniteSet(OpenOf(m)) /\ Cardinality(OpenOf(m)) \in Nat
  BY <1>1, <1>2, FS_Subset, FS_CardinalityType DEF OpenOf
<1>4. ASSUME NEW i \in DOMAIN frames
      PROVE  /\ frames[i].macro = m => Cardinality(OpenOf(m) \ {i}) = Cardinality(OpenOf(m)) - 1
             /\ frames[i].macro # m => OpenOf(m) \ {i} = OpenOf(m)
  <2>1. i \in OpenOf(m) <=> frames[i].macro = m
    BY <1>4 DEF OpenOf
  <2>2. i \in OpenOf(m) => Cardinality(OpenOf(m) \ {i}) = Cardinality(OpenOf(m)) - 1
    BY <1>3, FS_RemoveElement
  <2>3. i \notin OpenOf(m) => OpenOf(m) \ {i} = OpenOf(m)
    OBVIOUS
  <2> QED
    BY <2>1, <2>2, <2>3
<1>5. Len(frames) + 1 \notin OpenOf(m)
  BY <1>1 DEF OpenOf
<1> QED
  BY <1>3, <1>4, <1>5, FS_AddElement

\* The same buffers up to what is left of them: the counts are the same.
LEMMA SameOpen ==
  ASSUME DOMAIN frames' = DOMAIN frames, \A i \in DOMAIN frames : frames'[i].macro = frames[i].macro
  PROVE  \A m : OpenOf(m)' = OpenOf(m)
BY DEF OpenOf

\* Reading that neither pushes a buffer nor touches an entry.
LEMMA ReadLeaves ==
  ASSUME TypeOK, DepthInv, NEW a \in Ahead, frames' = a.frames, table' = table,
         mode' \in {"define", "tail"} => \A i \in DOMAIN frames : frames[i].macro = NoMacro
  PROVE  FramesInv' /\ TableInv'
<1>1. /\ DOMAIN frames' = DOMAIN frames
      /\ \A i \in DOMAIN frames : frames'[i].macro = frames[i].macro /\ ~frames'[i].stale
      /\ \A i \in DOMAIN frames : frames[i].macro = NoMacro => Tame(frames'[i].rest)
      /\ \A i \in DOMAIN frames : frames[i].macro # NoMacro => Harmless(frames'[i].rest)
  BY AheadFrames
<1>2. Len(frames) \in Nat /\ DOMAIN frames = 1 .. Len(frames)
  BY DEF TypeOK
<1>3. FramesInv'
  <2> SUFFICES ASSUME NEW i \in DOMAIN frames
               PROVE  /\ ~frames'[i].stale
                      /\ frames'[i].macro = NoMacro =>
                           Tame(frames'[i].rest) /\ \A j \in 1 .. i : frames'[j].macro = NoMacro
                      /\ frames'[i].macro # NoMacro =>
                           /\ Harmless(frames'[i].rest)
                           /\ frames'[i].macro \in DOMAIN table'
                           /\ mode' \notin {"define", "tail"}
    BY <1>1 DEF FramesInv
  <2>1. /\ frames[i].macro = NoMacro => \A j \in 1 .. i : frames[j].macro = NoMacro
        /\ frames[i].macro # NoMacro => frames[i].macro \in DOMAIN table
    BY DEF DepthInv, FramesInv
  <2>2. \A j \in 1 .. i : j \in DOMAIN frames
    BY <1>2
  <2> QED
    BY <1>1, <2>1, <2>2
<1>4. TableInv'
  BY <1>1, SameOpen DEF DepthInv, TableInv
<1> QED
  BY <1>3, <1>4

OnlyFiles == \A i \in DOMAIN frames : frames[i].macro = NoMacro

\* With no expansion open, entries come and go as they please.
LEMMA WithoutExpansions ==
  ASSUME DepthInv, OnlyFiles, OnlyFiles', DOMAIN table' \subseteq Macros, Len(frames') \in Nat,
         DOMAIN frames' = 1 .. Len(frames'),
         \A i \in DOMAIN frames' : ~frames'[i].stale /\ Tame(frames'[i].rest),
         \A m \in DOMAIN table' :
           \/ Harmless(table'[m].body) /\ table'[m].depth = 0
           \/ m \in DOMAIN table /\ table'[m] = table[m]
  PROVE  FramesInv' /\ TableInv'
<1>1. FramesInv'
  <2>1. \A i \in DOMAIN frames' : \A j \in 1 .. i : j \in DOMAIN frames'
    OBVIOUS
  <2> QED
    BY <2>1 DEF FramesInv, OnlyFiles
<1>2. TableInv'
  <2> SUFFICES ASSUME NEW m \in DOMAIN table'
               PROVE  /\ Harmless(table'[m].body)
                      /\ table'[m].depth = Cardinality(OpenOf(m)')
                      /\ table'[m].depth <= MaxDepth
    BY DEF TableInv
  <2>1. m # NoMacro
    BY PredefinedAssumption
  <2>2. OpenOf(m) = {} /\ OpenOf(m)' = {}
    BY <2>1 DEF OpenOf, OnlyFiles
  <2>3. Cardinality({}) = 0
    BY FS_EmptySet
  <2>4. CASE Harmless(table'[m].body) /\ table'[m].depth = 0
    BY <2>2, <2>3, <2>4, LimitAssumption
  <2>5. CASE m \in DOMAIN table /\ table'[m] = table[m]
    BY <2>2, <2>5 DEF DepthInv, TableInv
  <2> QED
    BY <2>4, <2>5
<1> QED
  BY <1>1, <1>2

\* A line that is read for a define or an include, and an item that redefines,
\* are read outside of any expansion.
LEMMA ReadOutside ==
  ASSUME TypeOK, DepthInv, NEW a \in Ahead,
         mode \in {"define", "tail"} \/ a.item.op \in Redefining
  PROVE  /\ OnlyFiles
         /\ \A i \in DOMAIN a.frames : /\ a.frames[i].macro = NoMacro
                                       /\ ~a.frames[i].stale /\ Tame(a.frames[i].rest)
         /\ a.frames \in Seq(Buffer)
<1>1. OnlyFiles
  <2>1. CASE mode \in {"define", "tail"}
    BY <2>1 DEF DepthInv, FramesInv, OnlyFiles
  <2>2. CASE a.item.op \in Redefining /\ frames # <<>>
    <3>1. /\ Len(frames) \in DOMAIN frames /\ DOMAIN frames = 1 .. Len(frames)
          /\ frames[Len(frames)].macro = NoMacro
      BY <2>2, AheadFrames DEF TypeOK, buffer
    <3> QED
      BY <3>1 DEF DepthInv, FramesInv, OnlyFiles
  <2>3. CASE frames = <<>>
    BY <2>3 DEF OnlyFiles
  <2> QED
    BY <2>1, <2>2, <2>3
<1> QED
  BY <1>1, AheadFrames, AheadType DEF OnlyFiles

\* Reading that acts on nothing.
LEMMA PlainReadDepth ==
  ASSUME TypeOK, DepthInv, answer = "running", UNCHANGED answer, NEW a \in Ahead,
         Emit(a) \/ Conditional(a) \/ SkipDirective(a) \/ SkipToEol(a) \/ TailJunk(a)
  PROVE  DepthInv'
<1>1. frames' = a.frames /\ table' = table /\ mode' \in {"initial", "skip"}
  BY DEF Emit, Conditional, SkipDirective, SkipToEol, TailJunk, Act, Read
<1>2. FramesInv' /\ TableInv'
  BY <1>1, ReadLeaves
<1> QED
  BY <1>1, <1>2 DEF DepthInv

\* A define, from its name to the end of its line.
LEMMA DefineDepth ==
  ASSUME TypeOK, DepthInv, InertBodies, answer = "running", UNCHANGED answer, NEW a \in Ahead,
         frames = <<>> => Within(a.item),
         Define(a) \/ DefineBody(a) \/ DefineFinish(a)
  PROVE  DepthInv'
<1>1. OnlyFiles
  BY ReadOutside DEF Define, DefineBody, DefineFinish, Act, Read, Redefining
<1>2. frames' = a.frames
  BY DEF Define, DefineBody, DefineFinish
<1>3. /\ DOMAIN frames' = DOMAIN frames /\ Len(frames') = Len(frames)
      /\ frames' = <<>> <=> frames = <<>>
  BY <1>2, AheadFrames, AheadType DEF TypeOK
<1>4. CASE Define(a)
  <2>1. table' = table /\ mode' = "define" /\ pending'.body = <<>> /\ a.item.op = "define"
    BY <1>4 DEF Define, Act, Read
  <2>2. FramesInv' /\ TableInv'
    BY <1>1, <1>2, <2>1, ReadLeaves DEF OnlyFiles
  <2>3. Harmless(pending'.body)
    BY <2>1 DEF Harmless
  <2>4. frames' # <<>> => Closing(frames'[Len(frames')].rest)
    BY <1>2, <1>3, <2>1, AheadFrames
  <2> QED
    BY <2>2, <2>3, <2>4 DEF DepthInv, buffer
<1>5. CASE DefineBody(a)
  <2> DEFINE i == IF a.item.op = "cont" THEN [op |-> "eol", arg |-> NoMacro] ELSE a.item
  <2>1. table' = table /\ mode = "define" /\ mode' = "define" /\ a.item.op # "eol"
        /\ pending' = [pending EXCEPT !.body = Append(@, i)]
    BY <1>5 DEF DefineBody
  <2>2. FramesInv' /\ TableInv'
    BY <1>1, <1>2, <2>1, ReadLeaves DEF OnlyFiles
  <2>3. a.item.op \notin Redefining
    <3>1. CASE frames = <<>>
      BY <2>1, <3>1 DEF Within, InertBodies
    <3>2. CASE frames # <<>>
      BY <2>1, <3>2, AheadFrames DEF DepthInv
    <3> QED
      BY <3>1, <3>2
  <2>4. i.op \notin Redefining
    BY <2>3 DEF Redefining
  <2>5. PICK body \in Seq(BodyItem) : body = pending.body
    BY DEF TypeOK
  <2>6. pending'.body = Append(body, i)
    BY <2>1, <2>5 DEF TypeOK
  <2>7. Harmless(body)
    BY <2>1, <2>5 DEF DepthInv
  <2>8. Harmless(pending'.body)
    <3> HIDE DEF i
    <3>1. body \in Seq(BodyItem \cup {i})
      BY <2>5
    <3>2. /\ DOMAIN Append(body, i) = 1 .. Len(body) + 1
          /\ Append(body, i)[Len(body) + 1] = i
          /\ \A j \in 1 .. Len(body) : Append(body, i)[j] = body[j] /\ j \in DOMAIN body
          /\ Len(body) \in Nat
      BY <3>1
    <3>3. \A j \in 1 .. Len(body) + 1 : j \in 1 .. Len(body) \/ j = Len(body) + 1
      BY <3>2
    <3> QED
      BY <2>4, <2>6, <2>7, <3>2, <3>3 DEF Harmless
  <2>9. frames' # <<>> => Closing(frames'[Len(frames')].rest)
    <3>1. frames # <<>> => Closing(buffer.rest)
      BY <2>1 DEF DepthInv
    <3> QED
      BY <1>2, <1>3, <2>1, <3>1, AheadFrames
  <2> QED
    BY <2>2, <2>8, <2>9 DEF DepthInv, buffer
<1>6. CASE DefineFinish(a)
  <2>1. table' = TableWith(table, {pending.name}, pending.body) /\ mode = "define" /\ mode' = "initial"
    BY <1>6 DEF DefineFinish
  <2>2. Harmless(pending.body) /\ pending.name \in Macros
    BY <2>1 DEF DepthInv, TypeOK
  <2>3. \A m \in DOMAIN table' :
           \/ Harmless(table'[m].body) /\ table'[m].depth = 0
           \/ m \in DOMAIN table /\ table'[m] = table[m]
    BY <2>1, <2>2 DEF TableWith, Macro
  <2>4. DOMAIN table' \subseteq Macros
    BY <2>1, <2>2 DEF TableWith, TypeOK
  <2>5. OnlyFiles' /\ \A i \in DOMAIN frames' : ~frames'[i].stale /\ Tame(frames'[i].rest)
    BY <1>2, <2>1, ReadOutside DEF OnlyFiles
  <2>6. Len(frames') \in Nat /\ DOMAIN frames' = 1 .. Len(frames')
    BY <1>3 DEF TypeOK
  <2>7. FramesInv' /\ TableInv'
    BY <1>1, <2>3, <2>4, <2>5, <2>6, WithoutExpansions
  <2> QED
    BY <2>1, <2>7 DEF DepthInv
<1> QED
  BY <1>4, <1>5, <1>6

\* An undef: with no expansion open there is none to leave dangling.
LEMMA UndefDepth ==
  ASSUME TypeOK, DepthInv, answer = "running", UNCHANGED answer, NEW a \in Ahead,
         Undef(a) \/ UndefineAll(a)
  PROVE  DepthInv'
<1>1. /\ OnlyFiles
      /\ \A i \in DOMAIN a.frames : /\ a.frames[i].macro = NoMacro
                                    /\ ~a.frames[i].stale /\ Tame(a.frames[i].rest)
      /\ a.frames \in Seq(Buffer)
  BY ReadOutside DEF Undef, UndefineAll, Act, Read, Redefining
<1>2. ASSUME NEW names \in SUBSET Macros PROVE Erased(a.frames, names) = a.frames
  <2>1. \A i \in DOMAIN a.frames : a.frames[i].macro \notin names
    BY <1>1, PredefinedAssumption
  <2>2. Erased(a.frames, names) = [i \in DOMAIN a.frames |-> a.frames[i]]
    BY <2>1 DEF Erased
  <2> QED
    BY <1>1, <2>2
<1>3. frames' = a.frames /\ mode' # "define"
  <2>1. CASE Undef(a)
    <3>1. a.item.arg \in Macros
      BY <2>1, AheadType, ItemFacts DEF Undef, Act, Read
    <3> QED
      BY <1>2, <2>1, <3>1 DEF Undef
  <2>2. CASE UndefineAll(a)
    BY <1>2, <2>2 DEF UndefineAll, Act, Read
  <2> QED
    BY <2>1, <2>2
<1>4. /\ DOMAIN table' \subseteq Macros
      /\ \A m \in DOMAIN table' : m \in DOMAIN table /\ table'[m] = table[m]
  BY DEF Undef, UndefineAll, TableWithout, TypeOK
<1>5. OnlyFiles' /\ \A i \in DOMAIN frames' : ~frames'[i].stale /\ Tame(frames'[i].rest)
  BY <1>1, <1>3 DEF OnlyFiles
<1>6. Len(frames') \in Nat /\ DOMAIN frames' = 1 .. Len(frames')
  BY <1>1, <1>3
<1>7. FramesInv' /\ TableInv'
  BY <1>1, <1>4, <1>5, <1>6, WithoutExpansions
<1> QED
  BY <1>3, <1>7 DEF DepthInv

\* An include, from its argument to the end of its line.
LEMMA IncludeDepth ==
  ASSUME TypeOK, DepthInv, InertBodies, answer = "running", UNCHANGED answer, NEW a \in Ahead,
         IncludeArg(a) \/ IncludeOpen(a)
  PROVE  DepthInv'
<1>1. /\ OnlyFiles
      /\ \A i \in DOMAIN a.frames : /\ a.frames[i].macro = NoMacro
                                    /\ ~a.frames[i].stale /\ Tame(a.frames[i].rest)
      /\ a.frames \in Seq(Buffer)
  BY ReadOutside DEF IncludeArg, IncludeOpen, Act, Read, Redefining
<1>2. table' = table /\ DOMAIN table \subseteq Macros /\ mode' # "define"
  BY DEF IncludeArg, IncludeOpen, TypeOK
<1>3. /\ \A i \in DOMAIN frames' : /\ frames'[i].macro = NoMacro
                                   /\ ~frames'[i].stale /\ Tame(frames'[i].rest)
      /\ frames' \in Seq(Buffer)
  <2>1. CASE frames' = a.frames
    BY <1>1, <2>1
  <2>2. CASE frames' # a.frames
    <3>1. /\ pending.name \in DOMAIN Text
          /\ frames' = PushBuffer(a.frames, NoMacro, Text[pending.name])
      BY <2>2 DEF IncludeArg, IncludeOpen
    <3>2. Tame(Text[pending.name]) /\ Text[pending.name] \in Seq(Item)
      BY <3>1, ItemAssumption DEF InertBodies
    <3>3. PICK b \in Buffer : b = [macro |-> NoMacro, stale |-> FALSE, rest |-> Text[pending.name]]
      BY <3>2 DEF Buffer
    <3>4. b.macro = NoMacro /\ ~b.stale /\ Tame(b.rest)
      BY <3>2, <3>3
    <3>5. frames' = Append(a.frames, b)
      BY <3>1, <3>3 DEF PushBuffer
    <3>6. /\ DOMAIN frames' = 1 .. Len(a.frames) + 1 /\ Len(a.frames) \in Nat
          /\ frames'[Len(a.frames) + 1] = b
          /\ \A i \in 1 .. Len(a.frames) : frames'[i] = a.frames[i] /\ i \in DOMAIN a.frames
      BY <1>1, <3>5
    <3>7. \A i \in 1 .. Len(a.frames) + 1 : i \in 1 .. Len(a.frames) \/ i = Len(a.frames) + 1
      BY <3>6
    <3> QED
      BY <1>1, <3>4, <3>5, <3>6, <3>7
  <2> QED
    BY <2>1, <2>2
<1>4. OnlyFiles' /\ Len(frames') \in Nat /\ DOMAIN frames' = 1 .. Len(frames')
  BY <1>3 DEF OnlyFiles
<1>5. FramesInv' /\ TableInv'
  BY <1>1, <1>2, <1>3, <1>4, WithoutExpansions
<1> QED
  BY <1>2, <1>5 DEF DepthInv

\* An expansion counts itself, and none is made past the limit.
LEMMA ExpandDepth ==
  ASSUME TypeOK, DepthInv, answer = "running", UNCHANGED answer, NEW a \in Ahead, Expand(a)
  PROVE  DepthInv'
<1> DEFINE m == a.item.arg
           n == Len(frames)
<1>1. m \in DOMAIN table /\ mode = "initial" /\ mode' = "initial"
  BY DEF Expand, Act, Read, IsDefined
<1>2. CASE table[m].depth >= MaxDepth
  <2>1. frames' = a.frames /\ table' = table
    BY <1>2 DEF Expand
  <2>2. FramesInv' /\ TableInv'
    BY <1>1, <2>1, ReadLeaves
  <2> QED
    BY <1>1, <2>2 DEF DepthInv
<1>3. CASE ~(table[m].depth >= MaxDepth)
  <2>1. /\ frames' = PushBuffer(a.frames, m, table[m].body)
        /\ table' = [table EXCEPT ![m].depth = @ + 1]
    BY <1>3 DEF Expand
  <2>2. /\ m \in Macros /\ m # NoMacro /\ table[m] \in Entry /\ table \in [DOMAIN table -> Entry]
        /\ n \in Nat /\ DOMAIN frames = 1 .. n
    BY <1>1, PredefinedAssumption DEF TypeOK
  <2>3. Harmless(table[m].body) /\ table[m].body \in Seq(Item) /\ table[m].depth \in Int
    BY <1>1, <2>2, BodyType DEF DepthInv, TableInv, Entry
  <2>4. PICK b \in Buffer : b = [macro |-> m, stale |-> FALSE, rest |-> table[m].body]
    BY <2>2, <2>3 DEF Buffer
  <2>5. b.macro = m /\ ~b.stale /\ Harmless(b.rest)
    BY <2>3, <2>4
  <2>6. a.frames \in Seq(Buffer) /\ Len(a.frames) = n
    BY AheadType
  <2>7. frames' = Append(a.frames, b)
    BY <2>1, <2>4 DEF PushBuffer
  <2>8. /\ DOMAIN frames' = 1 .. n + 1 /\ frames'[n + 1] = b
        /\ \A i \in 1 .. n : frames'[i] = a.frames[i]
    BY <2>2, <2>6, <2>7
  <2>9. PICK e \in Entry : e = [table[m] EXCEPT !.depth = @ + 1]
    BY <2>2, EntryType
  <2>10. e.depth = table[m].depth + 1 /\ e.body = table[m].body
    BY <2>2, <2>9 DEF Entry
  <2>11. /\ DOMAIN table' = DOMAIN table /\ table'[m] = e
         /\ \A k \in DOMAIN table : k # m => table'[k] = table[k]
    BY <1>1, <2>1, <2>2, <2>9
  <2>12. \A i \in 1 .. n :
           /\ a.frames[i].macro = frames[i].macro /\ ~a.frames[i].stale
           /\ frames[i].macro = NoMacro =>
                Tame(a.frames[i].rest) /\ \A j \in 1 .. i : frames[j].macro = NoMacro
           /\ frames[i].macro # NoMacro =>
                Harmless(a.frames[i].rest) /\ frames[i].macro \in DOMAIN table
    BY <2>2, AheadFrames DEF DepthInv, FramesInv
  <2>13. FramesInv'
    <3> SUFFICES ASSUME NEW i \in 1 .. n + 1
                 PROVE  /\ ~frames'[i].stale
                        /\ frames'[i].macro = NoMacro =>
                             Tame(frames'[i].rest) /\ \A j \in 1 .. i : frames'[j].macro = NoMacro
                        /\ frames'[i].macro # NoMacro =>
                             /\ Harmless(frames'[i].rest)
                             /\ frames'[i].macro \in DOMAIN table'
                             /\ mode' \notin {"define", "tail"}
      BY <2>8 DEF FramesInv
    <3>1. CASE i \in 1 .. n
      <4>1. \A j \in 1 .. i : j \in 1 .. n
        BY <2>2, <3>1
      <4> QED
        BY <1>1, <2>8, <2>11, <2>12, <3>1, <4>1
    <3>2. CASE i = n + 1
      BY <1>1, <2>2, <2>5, <2>8, <2>11, <3>2
    <3>3. i \in 1 .. n \/ i = n + 1
      BY <2>2
    <3> QED
      BY <3>1, <3>2, <3>3
  <2>14. OpenOf(m)' = OpenOf(m) \cup {n + 1} /\ \A k : k # m => OpenOf(k)' = OpenOf(k)
    <3>1. \A i \in 1 .. n : frames'[i].macro = frames[i].macro
      BY <2>8, <2>12
    <3>2. 1 .. n + 1 = 1 .. n \cup {n + 1} /\ n + 1 \notin 1 .. n
      BY <2>2
    <3> QED
      BY <2>2, <2>5, <2>8, <3>1, <3>2 DEF OpenOf
  <2>15. TableInv'
    <3> SUFFICES ASSUME NEW k \in DOMAIN table
                 PROVE  /\ Harmless(table'[k].body)
                        /\ table'[k].depth = Cardinality(OpenOf(k)')
                        /\ table'[k].depth <= MaxDepth
      BY <2>11 DEF TableInv
    <3>1. Harmless(table[k].body) /\ table[k].depth = Cardinality(OpenOf(k)) /\ table[k].depth <= MaxDepth
      BY DEF DepthInv, TableInv
    <3>2. CASE k = m
      <4>1. Cardinality(OpenOf(m) \cup {n + 1}) = Cardinality(OpenOf(m)) + 1
        BY OpenCount
      <4>2. table[m].depth + 1 <= MaxDepth
        BY <1>3, <2>3, LimitAssumption
      <4> QED
        BY <2>10, <2>11, <2>14, <3>1, <3>2, <4>1, <4>2
    <3>3. CASE k # m
      BY <2>11, <2>14, <3>1, <3>3
    <3> QED
      BY <3>2, <3>3
  <2> QED
    BY <1>1, <2>13, <2>15 DEF DepthInv
<1> QED
  BY <1>2, <1>3

\* The end of a buffer: its own entry, and no other, counts one expansion less.
LEMMA PopDepth ==
  ASSUME TypeOK, DepthInv, answer = "running", UNCHANGED answer, PopBuffer
  PROVE  DepthInv'
<1> DEFINE n == Len(frames)
           m == buffer.macro
<1>1. /\ n \in Nat /\ n > 0 /\ DOMAIN frames = 1 .. n /\ n \in DOMAIN frames /\ buffer = frames[n]
      /\ frames \in Seq(Buffer)
  BY DEF TypeOK, PopBuffer, buffer
<1>2. /\ DOMAIN frames' = 1 .. n - 1
      /\ \A i \in 1 .. n - 1 : frames'[i] = frames[i] /\ i \in DOMAIN frames
      /\ mode' = mode /\ buffer.rest = <<>>
  BY <1>1 DEF PopBuffer
<1>3. mode # "define"
  <2>1. ~Closing(buffer.rest)
    BY <1>2 DEF Closing
  <2> QED
    BY <2>1 DEF DepthInv, PopBuffer
<1>4. DOMAIN table' = DOMAIN table
  BY DEF PopBuffer
<1>5. FramesInv'
  <2>1. \A i \in 1 .. n - 1 : \A j \in 1 .. i : j \in 1 .. n - 1
    BY <1>1
  <2> QED
    BY <1>2, <1>4, <2>1 DEF DepthInv, FramesInv
<1>6. \A k : OpenOf(k)' = OpenOf(k) \ {n}
  <2>1. 1 .. n - 1 = (1 .. n) \ {n}
    BY <1>1
  <2> QED
    BY <1>1, <1>2, <2>1 DEF OpenOf
<1>7. ~frames[n].stale /\ (m # NoMacro => m \in DOMAIN table)
  BY <1>1 DEF DepthInv, FramesInv
<1>8. TableInv'
  <2> SUFFICES ASSUME NEW k \in DOMAIN table
               PROVE  /\ Harmless(table'[k].body)
                      /\ table'[k].depth = Cardinality(OpenOf(k)')
                      /\ table'[k].depth <= MaxDepth
    BY <1>4 DEF TableInv
  <2>1. Harmless(table[k].body) /\ table[k].depth = Cardinality(OpenOf(k)) /\ table[k].depth <= MaxDepth
    BY DEF DepthInv, TableInv
  <2>2. k \in Macros /\ k # NoMacro /\ table[k] \in Entry /\ table \in [DOMAIN table -> Entry]
    BY PredefinedAssumption DEF TypeOK
  <2>3. CASE k = m
    <3>1. table' = [table EXCEPT ![m].depth = @ - 1]
      BY <1>1, <1>7, <2>2, <2>3 DEF PopBuffer
    <3>2. PICK e \in Entry : e = [table[k] EXCEPT !.depth = @ - 1]
      BY <2>2, EntryType
    <3>3. table[k].depth \in Int /\ e.depth = table[k].depth - 1 /\ e.body = table[k].body
      BY <2>2, <3>2 DEF Entry
    <3>4. table'[k] = e
      BY <2>2, <2>3, <3>1, <3>2
    <3>5. Cardinality(OpenOf(k) \ {n}) = Cardinality(OpenOf(k)) - 1
      BY <1>1, <2>3, OpenCount
    <3>6. table[k].depth - 1 <= MaxDepth
      BY <2>1, <3>3, LimitAssumption
    <3> QED
      BY <1>6, <2>1, <3>3, <3>4, <3>5, <3>6
  <2>4. CASE k # m
    <3>1. table'[k] = table[k]
      BY <2>2, <2>4 DEF PopBuffer
    <3>2. OpenOf(k) \ {n} = OpenOf(k)
      BY <1>1, <2>4, OpenCount
    <3> QED
      BY <1>6, <2>1, <3>1, <3>2
  <2> QED
    BY <2>3, <2>4
<1> QED
  BY <1>2, <1>3, <1>5, <1>8 DEF DepthInv, PopBuffer

\* Where no body of a macro defines, undefines or includes anything, the counters
\* of the table are the expansions open, at every step of every file.
THEOREM DepthsCount == ASSUME InertBodies PROVE Spec => []DepthInv
<1>1. Init => DepthInv
  <2> SUFFICES ASSUME Init PROVE DepthInv
    OBVIOUS
  <2>1. frames = <<>> /\ mode = "initial" /\ answer = "running"
    BY DEF Init
  <2>2. \A m : OpenOf(m) = {}
    BY <2>1 DEF OpenOf
  <2>3. \A m \in DOMAIN table : table[m].body = <<>> /\ table[m].depth = 0
    BY DEF Init, Installed, TableWith, Macro
  <2>4. Cardinality({}) = 0 /\ 0 <= MaxDepth
    BY FS_EmptySet, LimitAssumption
  <2>5. Harmless(<<>>)
    BY DEF Harmless
  <2>6. TableInv
    BY <2>2, <2>3, <2>4, <2>5 DEF TableInv
  <2> QED
    BY <2>1, <2>6 DEF DepthInv, FramesInv
<1>2. TypeOK /\ DepthInv /\ [Next]_vars => DepthInv'
  <2> SUFFICES ASSUME TypeOK, DepthInv, [Next]_vars PROVE DepthInv'
    OBVIOUS
  <2>1. CASE answer = "running" /\ Scan /\ UNCHANGED answer
    BY <2>1, PlainReadDepth, DefineDepth, UndefDepth, IncludeDepth, ExpandDepth, PopDepth DEF Scan
  <2>2. CASE answer = "running" /\ EndOfFile
    <3>1. frames = <<>> /\ UNCHANGED <<table, frames, mode, pending>>
      BY <2>2 DEF EndOfFile
    <3>2. \A m : OpenOf(m)' = OpenOf(m)
      BY <3>1 DEF OpenOf
    <3> QED
      BY <3>1, <3>2 DEF DepthInv, FramesInv, TableInv
  <2>3. CASE NextFile
    <3>1. frames = <<>> /\ frames' = <<>> /\ mode' = "initial" /\ table' = Installed(table)
      BY <2>3 DEF NextFile, DepthInv
    <3>2. DOMAIN table' \subseteq Macros
      BY <3>1, PredefinedAssumption DEF Installed, TableWith, TypeOK
    <3>3. \A m \in DOMAIN table' :
            \/ Harmless(table'[m].body) /\ table'[m].depth = 0
            \/ m \in DOMAIN table /\ table'[m] = table[m]
      BY <3>1 DEF Installed, TableWith, Macro, Harmless
    <3>4. OnlyFiles /\ OnlyFiles'
      BY <3>1 DEF OnlyFiles
    <3>5. FramesInv' /\ TableInv'
      BY <3>1, <3>2, <3>3, <3>4, WithoutExpansions
    <3> QED
      BY <3>1, <3>5 DEF DepthInv
  <2>4. CASE UNCHANGED vars
    <3>1. UNCHANGED <<table, frames, mode, pending, answer>>
      BY <2>4 DEF vars
    <3>2. \A m : OpenOf(m)' = OpenOf(m)
      BY <3>1 DEF OpenOf
    <3> QED
      BY <3>1, <3>2 DEF DepthInv, FramesInv, TableInv, buffer
  <2> QED
    BY <2>1, <2>2, <2>3, <2>4 DEF Next
<1> QED
  BY <1>1, <1>2, TypesHold, PTL DEF Spec

\* The counter kept in the table caps the expansions of a macro that are open at
\* once, as long as no body of a macro can reset it.
THEOREM ExpansionsCapped == ASSUME InertBodies PROVE Spec => []DepthCapped
<1>1. DepthInv => DepthCapped
  <2> SUFFICES ASSUME DepthInv, NEW m \in Macros PROVE Cardinality(OpenOf(m)) <= MaxDepth
    BY DEF DepthCapped, OpenOf
  <2>1. CASE m \in DOMAIN table
    BY <2>1 DEF DepthInv, TableInv
  <2>2. CASE m \notin DOMAIN table
    <3>1. OpenOf(m) = {}
      BY <2>2, PredefinedAssumption DEF DepthInv, FramesInv, OpenOf
    <3> QED
      BY <3>1, FS_EmptySet, LimitAssumption
  <2> QED
    BY <2>1, <2>2
<1> QED
  BY <1>1, DepthsCount, PTL
=============================================================================
