-------------------------- MODULE ModuleObfuscator --------------------------
(***************************************************************************)
(* The renaming of a module's own identifiers (module_obfuscator.cpp): a   *)
(* new name is drawn for every declaration, the identifiers are replaced   *)
(* outside what a subroutine hides, and a second walk renames the          *)
(* declarations, the calls, and each subroutine under the new names of its *)
(* own arguments and variables.                                            *)
(*                                                                         *)
(* A module is given by the names it declares and uses, scope by scope.    *)
(* Nested blocks count with the scope they stand in; struct members and    *)
(* types are left out.                                                     *)
(***************************************************************************)
EXTENDS Integers, FiniteSets

CONSTANTS Name,      \* the identifiers of the source
          Top,       \* the scope of the module; a subroutine is its name
          Base,      \* the base of the new names, taken first
          Draws,     \* what get_unique_identifier may draw
          Hash,      \* the hashed form of a name
          Modules    \* the modules

Scopes(m) == m.subs \cup {Top}
Locals(m, s) == IF s = Top THEN {} ELSE m.args[s] \cup m.vars[s]

\* What is drawn for: signals and localparams, and subroutines.  A module
\* also declares ports and parameters (kept), and instances.
Own(m) == m.decls \cup m.subs
Others(m) == m.kept \cup m.insts
DeclaredIn(m, s) == IF s = Top THEN Own(m) \cup Others(m) ELSE Locals(m, s)

IsModule(m) ==
  /\ m.decls \subseteq Name /\ m.subs \subseteq Name /\ Others(m) \subseteq Name
  /\ m.tasks \subseteq m.subs
  /\ m.args \in [m.subs -> SUBSET Name] /\ m.vars \in [m.subs -> SUBSET Name]
  /\ m.refs \in [Scopes(m) -> SUBSET Name] /\ m.calls \in [Scopes(m) -> SUBSET Name]
  /\ m.paths \in [Scopes(m) -> SUBSET Name] /\ m.hiercall \in BOOLEAN
  /\ Own(m) \cap Others(m) = {}

New == {Base} \cup Draws \cup {Hash[n] : n \in Name}

\* A new name may well be a name of the module: the code starts from an empty
\* m_unique_id and never looks at the names that stay.
ASSUME TopIsNoName == Top \notin Name
ASSUME ModulesAreModules == \A m \in Modules : IsModule(m)

VARIABLES module,   \* the module
          hash,     \* m_use_hash
          map,      \* m_replace_map
          unique,   \* m_unique_id
          text,     \* what each occurrence of a name is spelled now
          phase,    \* where process() is
          todo,     \* the occurrences the current walk has left
          within,   \* the subroutine being renamed
          locals,   \* its declarations not yet drawn for
          backup    \* the map outside it

vars == <<module, hash, map, unique, text, phase, todo, within, locals, backup>>

\* An occurrence is a scope, a role and the name the source has there.  A
\* path is a hierarchical reference, whose name is one of another module.
Roles == {"decl", "ref", "call", "path"}
Occ(s, role, n) == [scope |-> s, role |-> role, name |-> n]
Used(m, s, role) ==
  CASE role = "decl" -> DeclaredIn(m, s)
    [] role = "ref"  -> m.refs[s]
    [] role = "call" -> m.calls[s]
    [] role = "path" -> m.paths[s]
Occurrences(m) ==
  {o \in [scope : Scopes(m), role : Roles, name : Name] : o.name \in Used(m, o.scope, o.role)}

---------------------------------------------------------------------------
(* push_decl                                                               *)

\* get_unique_identifier: the base when it is free, else a free draw.
FreshNames(declared) == IF Base \notin declared THEN {Base} ELSE Draws \ declared

NewNames(n) == IF hash /\ Hash[n] \notin unique THEN {Hash[n]} ELSE FreshNames(unique)

\* Mutant: the name is not entered among those taken.
Forgotten(declared, new) == declared
Taken(declared, new) == declared \cup {new}

Put(f, n, new) == [x \in DOMAIN f \cup {n} |-> IF x = n THEN new ELSE f[x]]

Renamed(o) == IF text[o] \in DOMAIN map THEN map[text[o]] ELSE text[o]

PushDecl(n) ==
  /\ phase = "push"
  /\ Occ(Top, "decl", n) \in todo
  /\ \E new \in NewNames(n) : /\ map' = Put(map, n, new)
                              /\ unique' = Taken(unique, new)
  /\ todo' = todo \ {Occ(Top, "decl", n)}
  /\ UNCHANGED <<module, hash, text, phase, within, locals, backup>>

\* Mutant: a name a subroutine declares is replaced in it all the same.
HidesNone(o) == FALSE
Hidden(o) == o.name \in Locals(module, o.scope)

\* ASTReplace::replace_identifier, then the walk of rename_locals begins.
ReplaceIdentifiers ==
  /\ phase = "push"
  /\ todo = {}
  /\ text' = [o \in Occurrences(module) |->
                IF o.role = "ref" /\ ~Hidden(o) THEN Renamed(o) ELSE text[o]]
  /\ phase' = "walk"
  /\ todo' = {o \in Occurrences(module) : o.scope = Top /\ o.role \in {"decl", "call"}}
  /\ UNCHANGED <<module, hash, map, unique, within, locals, backup>>

\* A declaration or a call of the module itself.
RenameLocal(o) ==
  /\ phase = "walk"
  /\ o \in todo
  /\ o.role = "decl" => o.name \notin module.subs
  /\ text' = [text EXCEPT ![o] = Renamed(o)]
  /\ todo' = todo \ {o}
  /\ UNCHANGED <<module, hash, map, unique, phase, within, locals, backup>>

\* Mutant: a variable that redeclares an argument is drawn for once more.
AllLocals(s) == {<<1, n>> : n \in module.args[s]} \cup {<<2, n>> : n \in module.vars[s]}
\* The declarations of a subroutine a name is drawn for.  The variables of a
\* function are looked up as those of a task, and a function has none.
\* (The number tells a variable from an argument it redeclares.)
DrawnLocals(s) ==
  {<<1, n>> : n \in module.args[s]}
  \cup {<<2, n>> : n \in IF s \in module.tasks THEN module.vars[s] \ module.args[s] ELSE {}}

EnterProc(s) ==
  /\ phase = "walk"
  /\ s \in module.subs
  /\ Occ(Top, "decl", s) \in todo
  /\ text' = [text EXCEPT ![Occ(Top, "decl", s)] = Renamed(Occ(Top, "decl", s))]
  /\ todo' = todo \ {Occ(Top, "decl", s)}
  /\ phase' = "proc"
  /\ within' = s
  /\ locals' = DrawnLocals(s)
  /\ backup' = map
  /\ UNCHANGED <<module, hash, map, unique>>

PushLocal(l) ==
  /\ phase = "proc"
  /\ l \in locals
  /\ \E new \in NewNames(l[2]) : /\ map' = Put(map, l[2], new)
                                 /\ unique' = Taken(unique, new)
  /\ locals' = locals \ {l}
  /\ UNCHANGED <<module, hash, text, phase, todo, within, backup>>

\* Mutant: the map of the subroutine is kept for what follows it.
Kept(f) == map
Restored(f) == f

\* rename_procs: every name in the subroutine, and then the map as it was.
RenameProc ==
  /\ phase = "proc"
  /\ locals = {}
  /\ text' = [o \in Occurrences(module) |-> IF o.scope = within THEN Renamed(o) ELSE text[o]]
  /\ map' = Restored(backup)
  /\ phase' = "walk"
  /\ UNCHANGED <<module, hash, unique, todo, within, locals, backup>>

Finish ==
  /\ phase = "walk"
  /\ todo = {}
  /\ phase' = "done"
  /\ UNCHANGED <<module, hash, map, unique, text, todo, within, locals, backup>>

\* A module with a hierarchical call is refused before anything is renamed.
Init ==
  /\ module \in Modules
  /\ hash \in BOOLEAN
  /\ map = [n \in {} |-> Base]
  /\ unique = {}
  /\ text = [o \in Occurrences(module) |-> o.name]
  /\ phase = IF module.hiercall THEN "refused" ELSE "push"
  /\ todo = {Occ(Top, "decl", n) : n \in Own(module)}
  /\ within = Top
  /\ locals = {}
  /\ backup = map

Next ==
  \/ \E n \in Own(module) : PushDecl(n)
  \/ ReplaceIdentifiers
  \/ \E o \in todo : RenameLocal(o)
  \/ \E s \in module.subs : EnterProc(s)
  \/ \E l \in locals : PushLocal(l)
  \/ RenameProc
  \/ Finish

Spec == Init /\ [][Next]_vars
FairSpec == Spec /\ WF_vars(Next)

---------------------------------------------------------------------------
TypeOK ==
  /\ module \in Modules
  /\ hash \in BOOLEAN
  /\ unique \subseteq New
  /\ DOMAIN map \subseteq Name /\ \A n \in DOMAIN map : map[n] \in unique
  /\ DOMAIN backup \subseteq Name /\ \A n \in DOMAIN backup : backup[n] \in unique
  /\ text \in [Occurrences(module) -> Name \cup New]
  /\ phase \in {"refused", "push", "walk", "proc", "done"}
  /\ todo \subseteq Occurrences(module)
  /\ within \in Scopes(module)
  /\ locals \subseteq {1, 2} \X Locals(module, within)

\* What a name of a scope names in the source.
Target(s, n) ==
  IF n \in Locals(module, s) THEN Occ(s, "decl", n) ELSE Occ(Top, "decl", n)

\* What is spelled x in a scope names the declaration d in the result: no
\* declaration nearer or beside it has that spelling.
Names(s, x, d) ==
  /\ text[d] = x
  /\ \A n \in Locals(module, s) : text[Occ(s, "decl", n)] = x => Occ(s, "decl", n) = d
  /\ d.scope = Top => \A n \in DeclaredIn(module, Top) :
                         text[Occ(Top, "decl", n)] = x => Occ(Top, "decl", n) = d

\* Every reference and call of the result names what it named in the source,
\* and a name declared nowhere in the module stays one.
Bound ==
  \A s \in Scopes(module) : \A role \in {"ref", "call"} : \A n \in Used(module, s, role) :
    IF n \in DeclaredIn(module, s) \cup DeclaredIn(module, Top)
    THEN Names(s, text[Occ(s, role, n)], Target(s, n))
    ELSE /\ text[Occ(s, role, n)] = n
         /\ \A t \in {s, Top} : \A d \in DeclaredIn(module, t) : text[Occ(t, "decl", d)] # n

\* No name drawn is one the module has, whatever becomes of that one.
NamesOf(m) == {o.name : o \in Occurrences(m)}
Apart == unique \cap NamesOf(module) = {}

\* A renamed module means what it meant, as long as no name drawn for it is
\* one of its own (rename_locals and rename_procs, module_obfuscator.cpp:182;
\* push_decl does not see to that, module_obfuscator.cpp:149).
SameBinding == phase = "done" /\ Apart => Bound

\* "The output remains valid, simulatable, synthesizable RTL"
\* (docs/veriobf.md:5): whatever the names of the module, nothing in it is
\* bound to another declaration than in the source.
AlwaysBound == phase = "done" => Bound

\* The names push_decl did not draw for are never touched, whatever map stands
\* for the subroutine being renamed; and in the end each name it drew for at
\* the top is replaced, no two by the same (module_obfuscator.cpp:149-163).
InterfaceStands ==
  /\ \A n \in Others(module) : text[Occ(Top, "decl", n)] = n
  /\ phase = "done" =>
       \A n \in Own(module) :
         LET new == text[Occ(Top, "decl", n)]
         IN  new \in unique /\ \A k \in Own(module) : text[Occ(Top, "decl", k)] = new => k = n

\* The pass ends.
Answered == <>(phase \in {"done", "refused"})
=============================================================================
