----------------------------- MODULE MCObfuscate -----------------------------
(***************************************************************************)
(* Modules with a port, two signals and two subroutines, for TLC: every    *)
(* way for the subroutines to redeclare the names of the module, of one    *)
(* another and of the port, with every name used in every scope.  Then     *)
(* modules that have a name the draws may reach.                           *)
(***************************************************************************)
EXTENDS ModuleObfuscator

Module(decls, subs, tasks, args, variables, hiercall) ==
  [decls |-> decls, kept |-> {"p"}, insts |-> {}, subs |-> subs, tasks |-> tasks,
   args  |-> [s \in subs |-> args[s]], vars |-> [s \in subs |-> variables[s]],
   refs  |-> [s \in subs \cup {Top} |-> {"a", "p", "u"} \cup (subs \cap {s})
                                        \cup IF s = Top THEN {} ELSE args[s] \cup variables[s]],
   calls |-> [s \in subs \cup {Top} |-> IF s = Top THEN subs ELSE {"f"} \cap subs],
   paths |-> [s \in subs \cup {Top} |-> IF s = Top THEN {"a"} ELSE {"u"}],
   hiercall |-> hiercall]

Nothing == [f |-> {}, g |-> {}]

\* One subroutine, which redeclares any of the names; two signals of one
\* hash; two subroutines, of which one hides what the other reads.
Alone ==
  {Module({"a"}, {"f"}, tasks, [Nothing EXCEPT !.f = l[1]], [Nothing EXCEPT !.f = l[2]], FALSE) :
     tasks \in {{}, {"f"}},
     l \in {{}, {"a"}} \X {{}, {"a"}, {"b"}, {"p"}} \cup {{"a", "b"}} \X {{}, {"a"}}}
Twins ==
  {Module({"a", "b"}, {"f"}, {}, [Nothing EXCEPT !.f = args], Nothing, FALSE) : args \in {{}, {"a"}}}
Pairs ==
  {Module({"a"}, {"f", "g"}, {}, [Nothing EXCEPT ![s] = {n}], Nothing, FALSE) :
     s \in {"f", "g"}, n \in {"a", "b"}}

Empty == Module({"a"}, {}, {}, Nothing, Nothing, FALSE)

\* An instance beside the signals, in the way of a subroutine.
Cells == {[Module({"a"}, {"f"}, {}, [Nothing EXCEPT !.f = {n}], Nothing, FALSE) EXCEPT !.insts = {"k"}] :
            n \in {"a", "k"}}

\* A port, an instance or a signal under a name that is drawn first, or that
\* a second draw may give; the hash of the signal is a name of the module.
Has(m, x) == [m EXCEPT !.refs = [s \in DOMAIN @ |-> @[s] \cup {x}]]
Overlap(m) ==
  {Has([m EXCEPT !.kept = @ \cup {x}], x) : x \in {"h", "h_1", "#ab"}}
  \cup {[m EXCEPT !.insts = {"h_1"}], Has([m EXCEPT !.decls = @ \cup {"h"}], "h")}
Overlaps == Overlap(Module({"a"}, {"f"}, {}, [Nothing EXCEPT !.f = {"b"}], Nothing, FALSE))

MCModules == Alone \cup Twins \cup Pairs \cup {Empty, [Empty EXCEPT !.hiercall = TRUE]} \cup Cells \cup Overlaps

\* A module whose port has the name that is drawn first.
CaptureModules == {Has([Empty EXCEPT !.kept = @ \cup {"h"}], "h")}

\* Two names of one hash.
MCHash == [n \in Name |-> CASE n \in {"a", "b"} -> "#ab" [] n = "f" -> "#f" [] n = "g" -> "#g" [] OTHER -> "#"]
=============================================================================
