----------------------- MODULE ModuleObfuscatorProofs -----------------------
(***************************************************************************)
(* That the renaming keeps every binding, for any modules and names, as    *)
(* long as what is drawn is no name of the module.  The invariant follows  *)
(* the walk: what is behind it is spelled as the map of the module says,   *)
(* what is ahead of it as in the source, and a subroutine it has left has  *)
(* spellings of its own.  Only the subroutines need the draws to be apart. *)
(***************************************************************************)
EXTENDS ModuleObfuscator, TLAPS

Injective(f) == \A x, y \in DOMAIN f : f[x] = f[y] => x = y

\* The map outside the subroutines, and what it makes of a name.
Outer == IF phase = "proc" THEN backup ELSE map
After(n) == IF n \in Own(module) THEN Outer[n] ELSE n

Walks == phase \in {"walk", "proc", "done"}

\* Before the walk: the text is that of the source, and a name has been
\* drawn for what is no longer to do.
Pushing ==
  /\ ~Walks => \A o \in Occurrences(module) : text[o] = o.name
  /\ phase = "push" =>
    /\ DOMAIN map = {n \in Own(module) : Occ(Top, "decl", n) \notin todo}
    /\ \A o \in todo : o.scope = Top /\ o.role = "decl" /\ o.name \in Own(module)

\* The module's own scope.
Outside ==
  Walks =>
    /\ DOMAIN Outer = Own(module)
    /\ \A o \in todo : o.scope = Top /\ o.role \in {"decl", "call"}
    /\ \A o \in Occurrences(module) :
         /\ o.scope = Top /\ o.role \in {"decl", "call"} =>
              text[o] = IF o \in todo THEN o.name ELSE After(o.name)
         /\ o.scope = Top /\ o.role = "ref" => text[o] = After(o.name)

\* Inside a subroutine: the map differs from the one outside on the names
\* the subroutine declares only, and is new where it differs.
Inside ==
  phase = "proc" =>
    /\ within \in module.subs
    /\ Occ(Top, "decl", within) \notin todo
    /\ Own(module) \subseteq DOMAIN map
    /\ DOMAIN map \subseteq Own(module) \cup Locals(module, within)
    /\ \A n \in DOMAIN map \ Locals(module, within) : map[n] = backup[n]
    /\ \A n \in DOMAIN map : \A m \in Own(module) : map[n] = backup[m] => n = m

\* Whether a subroutine has been renamed.
Left(s) == Walks /\ Occ(Top, "decl", s) \notin todo /\ ~(phase = "proc" /\ s = within)

Ahead(s) ==
  /\ \A n \in Locals(module, s) : text[Occ(s, "decl", n)] = n
  /\ \A n \in module.refs[s] : text[Occ(s, "ref", n)] = IF n \in Locals(module, s) THEN n ELSE After(n)
  /\ \A n \in module.calls[s] : text[Occ(s, "call", n)] = n

Behind(s) ==
  /\ \A n \in Locals(module, s) : \/ text[Occ(s, "decl", n)] = n
                                  \/ text[Occ(s, "decl", n)] \in unique
  /\ \A n, m \in Locals(module, s) : text[Occ(s, "decl", n)] = text[Occ(s, "decl", m)] => n = m
  /\ \A n \in Locals(module, s) : \A m \in Own(module) : text[Occ(s, "decl", n)] = Outer[m] => n = m
  /\ \A role \in {"ref", "call"} : \A n \in Used(module, s, role) :
       text[Occ(s, role, n)] = IF n \in Locals(module, s) THEN text[Occ(s, "decl", n)] ELSE After(n)

Subroutines == Walks => \A s \in module.subs : IF Left(s) THEN Behind(s) ELSE Ahead(s)

Done == phase = "done" => todo = {}

Inv ==
  /\ TypeOK
  /\ Injective(map) /\ Injective(backup)
  /\ Pushing /\ Outside /\ Inside /\ (Apart => Subroutines) /\ Done

---------------------------------------------------------------------------
(* Facts about modules, occurrences and new names.                         *)

LEMMA ModuleFacts ==
  ASSUME NEW m \in Modules
  PROVE  /\ IsModule(m)
         /\ Own(m) \subseteq Name /\ Own(m) \cap Others(m) = {} /\ m.subs \subseteq Own(m)
         /\ Top \notin m.subs
         /\ \A s \in Scopes(m) : Locals(m, s) \subseteq Name /\ DeclaredIn(m, s) \subseteq Name
         /\ \A s \in m.subs : DeclaredIn(m, s) = Locals(m, s)
BY ModulesAreModules, TopIsNoName DEF IsModule, Own, Others, Locals, DeclaredIn, Scopes

\* An occurrence is one of a scope of the module, in a role, of a name used.
LEMMA OccurrenceFacts ==
  ASSUME NEW m \in Modules
  PROVE  /\ \A s \in Scopes(m) : \A role \in Roles : \A n \in Used(m, s, role) :
              Occ(s, role, n) \in Occurrences(m)
         /\ \A o \in Occurrences(m) : /\ o = Occ(o.scope, o.role, o.name)
                                      /\ o.scope \in Scopes(m) /\ o.role \in Roles
                                      /\ o.name \in Used(m, o.scope, o.role) /\ o.name \in Name
<1>1. ASSUME NEW s \in Scopes(m), NEW role \in Roles, NEW n \in Used(m, s, role)
      PROVE  Occ(s, role, n) \in Occurrences(m)
  <2>1. n \in Name
    BY ModuleFacts, <1>1 DEF Used, Roles, IsModule
  <2>. QED  BY <2>1, <1>1 DEF Occurrences, Occ
<1>2. ASSUME NEW o \in Occurrences(m)
      PROVE  /\ o = Occ(o.scope, o.role, o.name)
             /\ o.scope \in Scopes(m) /\ o.role \in Roles
             /\ o.name \in Used(m, o.scope, o.role) /\ o.name \in Name
  BY <1>2 DEF Occurrences, Occ
<1>. QED  BY <1>1, <1>2

\* A name drawn is new and was free.
LEMMA NewNamesFree ==
  ASSUME NEW n \in Name, NEW new \in NewNames(n)
  PROVE  new \in New /\ new \notin unique
BY DEF NewNames, FreshNames, New

LEMMA PutFacts ==
  ASSUME NEW f, NEW n, NEW new
  PROVE  /\ DOMAIN Put(f, n, new) = DOMAIN f \cup {n}
         /\ \A x \in DOMAIN f \cup {n} : Put(f, n, new)[x] = IF x = n THEN new ELSE f[x]
BY DEF Put

\* Entering a name nothing maps to keeps a map injective.
LEMMA PutInjective ==
  ASSUME NEW f, NEW n, NEW new, Injective(f), \A x \in DOMAIN f : f[x] # new
  PROVE  Injective(Put(f, n, new))
<1>1. ASSUME NEW x \in DOMAIN f \cup {n}, NEW y \in DOMAIN f \cup {n},
             Put(f, n, new)[x] = Put(f, n, new)[y]
      PROVE  x = y
  BY <1>1 DEF Put, Injective
<1>. QED  BY <1>1 DEF Put, Injective

\* The occurrences of a module's own scope, and those of a subroutine.
LEMMA UsedFacts ==
  ASSUME NEW m \in Modules
  PROVE  /\ \A s \in Scopes(m) : /\ Used(m, s, "decl") = DeclaredIn(m, s)
                                 /\ Used(m, s, "ref") = m.refs[s]
                                 /\ Used(m, s, "call") = m.calls[s]
         /\ \A n \in Own(m) : Occ(Top, "decl", n) \in Occurrences(m)
         /\ \A s \in m.subs : \A n \in Locals(m, s) : Occ(s, "decl", n) \in Occurrences(m)
         /\ Top \in Scopes(m)
<1>1. \A s \in Scopes(m) : /\ Used(m, s, "decl") = DeclaredIn(m, s)
                           /\ Used(m, s, "ref") = m.refs[s]
                           /\ Used(m, s, "call") = m.calls[s]
  BY DEF Used
<1>2. Top \in Scopes(m)
  BY DEF Scopes
<1>3. \A n \in Own(m) : Occ(Top, "decl", n) \in Occurrences(m)
  BY <1>1, <1>2, OccurrenceFacts DEF DeclaredIn, Roles
<1>4. \A s \in m.subs : \A n \in Locals(m, s) : Occ(s, "decl", n) \in Occurrences(m)
  BY <1>1, OccurrenceFacts, ModuleFacts DEF Scopes, Roles
<1>. QED  BY <1>1, <1>2, <1>3, <1>4

\* An occurrence is told by its scope, its role and its name.
LEMMA OccFields ==
  ASSUME NEW s, NEW role, NEW n
  PROVE  Occ(s, role, n).scope = s /\ Occ(s, role, n).role = role /\ Occ(s, role, n).name = n
BY DEF Occ

\* What a module declares and uses are names of it.
LEMMA NamesFacts ==
  ASSUME NEW m \in Modules
  PROVE  /\ \A o \in Occurrences(m) : o.name \in NamesOf(m)
         /\ DeclaredIn(m, Top) \subseteq NamesOf(m) /\ Own(m) \subseteq NamesOf(m)
         /\ \A s \in Scopes(m) : /\ Locals(m, s) \subseteq NamesOf(m)
                                 /\ \A role \in Roles : Used(m, s, role) \subseteq NamesOf(m)
<1>1. \A o \in Occurrences(m) : o.name \in NamesOf(m)
  BY DEF NamesOf
<1>2. \A s \in Scopes(m) : \A role \in Roles : Used(m, s, role) \subseteq NamesOf(m)
  BY <1>1, OccurrenceFacts, OccFields
<1>3. \A s \in Scopes(m) : DeclaredIn(m, s) \subseteq NamesOf(m)
  BY <1>2, UsedFacts DEF Roles
<1>4. \A s \in Scopes(m) : Locals(m, s) \subseteq NamesOf(m)
  BY <1>3, ModuleFacts DEF Scopes, Locals
<1>. QED  BY <1>1, <1>2, <1>3, <1>4, UsedFacts DEF DeclaredIn

\* Draws once apart were apart before.
LEMMA ApartBefore ==
  ASSUME module' = module, unique \subseteq unique', Apart' PROVE Apart
BY DEF Apart, NamesOf, Occurrences

---------------------------------------------------------------------------
LEMMA InitInv ==
  ASSUME Init PROVE Inv
<1>1. module \in Modules /\ Own(module) \subseteq Name
  BY ModuleFacts DEF Init
<1>2. DOMAIN map = {} /\ DOMAIN backup = {}
  BY DEF Init
<1>3. \A o \in Occurrences(module) : o.name \in Name
  BY <1>1, OccurrenceFacts
<1>4. todo \subseteq Occurrences(module)
  BY <1>1, UsedFacts DEF Init
<1>5. TypeOK
  BY <1>1, <1>2, <1>3, <1>4, UsedFacts DEF Init, TypeOK, Locals
<1>6. Pushing
  BY <1>1, <1>2, OccFields DEF Init, Pushing, Walks
<1>. QED  BY <1>2, <1>5, <1>6 DEF Init, Inv, Injective, Outside, Inside, Subroutines, Done, Walks

\* Entering a drawn name in the map keeps its part of the type invariant.
LEMMA PutType ==
  ASSUME TypeOK, NEW n \in Name, NEW new \in NewNames(n),
         map' = Put(map, n, new), unique' = Taken(unique, new), backup' = backup
  PROVE  /\ unique' \subseteq New
         /\ DOMAIN map' \subseteq Name /\ \A x \in DOMAIN map' : map'[x] \in unique'
         /\ DOMAIN backup' \subseteq Name /\ \A x \in DOMAIN backup' : backup'[x] \in unique'
         /\ \A x \in DOMAIN map : map[x] # new
         /\ \A x \in DOMAIN backup : backup[x] # new
<1>1. new \in New /\ new \notin unique
  BY NewNamesFree
<1>2. /\ DOMAIN map' = DOMAIN map \cup {n}
      /\ \A x \in DOMAIN map \cup {n} : map'[x] = IF x = n THEN new ELSE map[x]
  BY DEF Put
<1>3. /\ unique \subseteq New
      /\ DOMAIN map \subseteq Name /\ \A x \in DOMAIN map : map[x] \in unique
      /\ DOMAIN backup \subseteq Name /\ \A x \in DOMAIN backup : backup[x] \in unique
  BY DEF TypeOK
<1>4. unique' = unique \cup {new}
  BY DEF Taken
<1>5. \A x \in DOMAIN map' : map'[x] \in unique'
  BY <1>2, <1>3, <1>4
<1>. QED  BY <1>1, <1>2, <1>3, <1>4, <1>5

LEMMA PushDeclInv ==
  ASSUME Inv, NEW n \in Own(module), PushDecl(n) PROVE Inv'
<1>1. module \in Modules /\ n \in Name
  BY ModuleFacts DEF Inv, TypeOK
<1>2. PICK new \in NewNames(n) : map' = Put(map, n, new) /\ unique' = Taken(unique, new)
  BY DEF PushDecl
<1>3. TypeOK'
  BY <1>1, <1>2, PutType DEF Inv, TypeOK, PushDecl
<1>4. Injective(map') /\ Injective(backup')
  BY <1>1, <1>2, PutType, PutInjective DEF Inv, PushDecl
<1>5. Pushing'
  <2>1. DOMAIN map' = DOMAIN map \cup {n}
    BY <1>2, PutFacts
  <2>2. \A k \in Own(module) : Occ(Top, "decl", k) \in todo' <=>
          Occ(Top, "decl", k) \in todo /\ k # n
    BY OccFields DEF PushDecl
  <2>. QED  BY <2>1, <2>2 DEF Inv, Pushing, PushDecl, Walks
<1>6. phase' = "push"
  BY DEF PushDecl
<1>. QED  BY <1>3, <1>4, <1>5, <1>6 DEF Inv, Outside, Inside, Subroutines, Done, Walks

\* What Renamed makes of an occurrence still spelled as in the source, and of
\* one already replaced.
LEMMA RenamedFacts ==
  ASSUME TypeOK, NEW o \in Occurrences(module)
  PROVE  /\ Renamed(o) \in Name \cup New
         /\ text[o] \in DOMAIN map => Renamed(o) = map[text[o]] /\ Renamed(o) \in unique
         /\ text[o] \notin DOMAIN map => Renamed(o) = text[o]
<1>1. /\ text[o] \in Name \cup New /\ DOMAIN map \subseteq Name
      /\ unique \subseteq New /\ \A n \in DOMAIN map : map[n] \in unique
  BY DEF TypeOK
<1>. QED  BY <1>1 DEF Renamed

\* The occurrences of an identifier expression outside what hides it are
\* replaced, and nothing else.
LEMMA ReplaceInv ==
  ASSUME Inv, ReplaceIdentifiers PROVE Inv'
<1>1. /\ module \in Modules /\ TypeOK /\ phase = "push" /\ todo = {} /\ phase' = "walk"
      /\ map' = map /\ backup' = backup /\ module' = module
      /\ todo' = {o \in Occurrences(module) : o.scope = Top /\ o.role \in {"decl", "call"}}
      /\ text' = [o \in Occurrences(module) |->
                    IF o.role = "ref" /\ ~Hidden(o) THEN Renamed(o) ELSE text[o]]
  BY DEF Inv, TypeOK, ReplaceIdentifiers
<1>2. TypeOK'
  BY <1>1, RenamedFacts DEF TypeOK, ReplaceIdentifiers
<1>3. /\ DOMAIN map = Own(module)
      /\ \A o \in Occurrences(module) : text[o] = o.name
  BY <1>1, UsedFacts DEF Inv, Pushing, Walks
<1>4. ASSUME NEW o \in Occurrences(module)
      PROVE  text'[o] = IF o.role = "ref" /\ o.name \notin Locals(module, o.scope)
                          THEN After(o.name)' ELSE o.name
  BY <1>1, <1>3, RenamedFacts DEF Hidden, After, Outer
<1>5. Outside'
  <2>1. Locals(module, Top) = {}
    BY DEF Locals
  <2>. QED  BY <1>1, <1>3, <1>4, <2>1 DEF Outside, Outer
<1>6. Subroutines'
  <2>1. ASSUME NEW s \in module.subs
        PROVE  ~Left(s)' /\ Ahead(s)'
    <3>1. Occ(Top, "decl", s) \in Occurrences(module)
      BY <1>1, ModuleFacts, UsedFacts
    <3>2. Occ(Top, "decl", s) \in todo'
      BY <1>1, <3>1, OccFields
    <3>3. s \in Scopes(module)
      BY DEF Scopes
    <3>4. ASSUME NEW n \in Locals(module, s)
          PROVE  text'[Occ(s, "decl", n)] = n
      BY <1>1, <1>4, UsedFacts, OccFields
    <3>5. ASSUME NEW n \in module.refs[s]
          PROVE  text'[Occ(s, "ref", n)] = IF n \in Locals(module, s) THEN n ELSE After(n)'
      <4>1. Occ(s, "ref", n) \in Occurrences(module)
        BY <1>1, <3>3, UsedFacts, OccurrenceFacts DEF Roles
      <4>. QED  BY <1>4, <4>1, OccFields
    <3>6. ASSUME NEW n \in module.calls[s]
          PROVE  text'[Occ(s, "call", n)] = n
      <4>1. Occ(s, "call", n) \in Occurrences(module)
        BY <1>1, <3>3, UsedFacts, OccurrenceFacts DEF Roles
      <4>. QED  BY <1>4, <4>1, OccFields
    <3>. QED  BY <1>1, <3>2, <3>4, <3>5, <3>6 DEF Left, Ahead
  <2>. QED  BY <1>1, <2>1 DEF Subroutines
<1>7. Injective(map)' /\ Injective(backup)'
  BY <1>1 DEF Inv, Injective
<1>. QED  BY <1>1, <1>2, <1>5, <1>6, <1>7 DEF Inv, Pushing, Inside, Done, Walks

\* A step that leaves the map, the subroutines' text and which of them have
\* been left as they are keeps what holds of them.
LEMMA SubroutinesFrame ==
  ASSUME Subroutines, module \in Modules, Walks, Walks', module' = module, Outer' = Outer,
         unique \subseteq unique',
         \A s \in module.subs : Left(s)' <=> Left(s),
         \A o \in Occurrences(module) : o.scope # Top => text'[o] = text[o]
  PROVE  Subroutines'
<1>1. ASSUME NEW s \in module.subs
      PROVE  IF Left(s)' THEN Behind(s)' ELSE Ahead(s)'
  <2>1. s # Top /\ s \in Scopes(module)
    BY ModuleFacts DEF Scopes
  <2>2. \A n \in Locals(module, s) : text'[Occ(s, "decl", n)] = text[Occ(s, "decl", n)]
    BY <2>1, UsedFacts, OccFields
  <2>3. \A role \in {"ref", "call"} : \A n \in Used(module, s, role) :
          text'[Occ(s, role, n)] = text[Occ(s, role, n)]
    BY <2>1, OccurrenceFacts, OccFields DEF Roles
  <2>4. \A n : After(n)' = After(n)
    BY DEF After
  <2>5. Used(module, s, "ref") = module.refs[s] /\ Used(module, s, "call") = module.calls[s]
    BY <2>1, UsedFacts
  <2>6. CASE Left(s)
    <3>1. Behind(s)
      BY <2>6 DEF Subroutines
    <3>2. Behind(s)'
      BY <3>1, <2>2, <2>3, <2>4 DEF Behind
    <3>. QED  BY <2>6, <3>2
  <2>7. CASE ~Left(s)
    <3>1. Ahead(s)
      BY <2>7 DEF Subroutines
    <3>2. Ahead(s)'
      BY <3>1, <2>2, <2>3, <2>4, <2>5 DEF Ahead
    <3>. QED  BY <2>7, <3>2
  <2>. QED  BY <2>6, <2>7
<1>. QED  BY <1>1 DEF Subroutines

LEMMA RenameLocalInv ==
  ASSUME Inv, NEW o \in todo, RenameLocal(o) PROVE Inv'
<1>1. /\ module \in Modules /\ TypeOK /\ o \in Occurrences(module)
      /\ phase = "walk" /\ phase' = "walk" /\ module' = module
      /\ map' = map /\ backup' = backup /\ todo' = todo \ {o}
      /\ text' = [text EXCEPT ![o] = Renamed(o)]
      /\ o.role = "decl" => o.name \notin module.subs
      /\ text \in [Occurrences(module) -> Name \cup New]
  BY DEF Inv, TypeOK, RenameLocal
<1>2. TypeOK'
  BY <1>1, RenamedFacts DEF TypeOK, RenameLocal
<1>3. /\ o.scope = Top /\ o.role \in {"decl", "call"} /\ text[o] = o.name
      /\ DOMAIN map = Own(module) /\ Outer = map /\ Outer' = map
  BY <1>1 DEF Inv, Outside, Walks, Outer
<1>4. Renamed(o) = After(o.name)
  BY <1>1, <1>3, RenamedFacts DEF After
<1>5. \A n : After(n)' = After(n)
  BY <1>1, <1>3 DEF After
<1>6. Outside'
  <2>1. ASSUME NEW q \in Occurrences(module)
        PROVE  /\ q.scope = Top /\ q.role \in {"decl", "call"} =>
                    text'[q] = IF q \in todo' THEN q.name ELSE After(q.name)'
               /\ q.scope = Top /\ q.role = "ref" => text'[q] = After(q.name)'
    BY <1>1, <1>3, <1>4, <1>5 DEF Inv, Outside, Walks
  <2>2. \A q \in todo' : q.scope = Top /\ q.role \in {"decl", "call"}
    BY <1>1 DEF Inv, Outside, Walks
  <2>. QED  BY <1>1, <1>3, <2>1, <2>2 DEF Outside
<1>7. ASSUME Apart' PROVE Subroutines'
  <2>0. unique' = unique /\ Subroutines
    BY <1>1, <1>7, ApartBefore DEF Inv, RenameLocal
  <2>1. \A s \in module.subs : Left(s)' <=> Left(s)
    BY <1>1, OccFields DEF Left, Walks
  <2>2. \A q \in Occurrences(module) : q.scope # Top => text'[q] = text[q]
    BY <1>1, <1>3
  <2>. QED  BY <1>1, <1>3, <2>0, <2>1, <2>2, SubroutinesFrame DEF Walks
<1>8. Injective(map)' /\ Injective(backup)'
  BY <1>1 DEF Inv, Injective
<1>. QED  BY <1>1, <1>2, <1>6, <1>7, <1>8 DEF Inv, Pushing, Inside, Done, Walks

LEMMA EnterProcInv ==
  ASSUME Inv, NEW s \in module.subs, EnterProc(s) PROVE Inv'
<1>. DEFINE o == Occ(Top, "decl", s)
<1>1. /\ module \in Modules /\ TypeOK /\ o \in todo /\ o \in Occurrences(module)
      /\ phase = "walk" /\ phase' = "proc" /\ module' = module /\ within' = s
      /\ map' = map /\ backup' = map /\ todo' = todo \ {o}
      /\ text' = [text EXCEPT ![o] = Renamed(o)] /\ locals' = DrawnLocals(s)
      /\ text \in [Occurrences(module) -> Name \cup New]
  BY DEF Inv, TypeOK, EnterProc
<1>2. s \in Scopes(module) /\ s # Top /\ Locals(module, s) = module.args[s] \cup module.vars[s]
  BY <1>1, ModuleFacts DEF Scopes, Locals
<1>3. o.scope = Top /\ o.role = "decl" /\ o.name = s
  BY OccFields
<1>. HIDE DEF o
<1>4. TypeOK'
  <2>1. locals' \subseteq {1, 2} \X Locals(module, s)
    BY <1>1, <1>2 DEF DrawnLocals
  <2>2. text' \in [Occurrences(module) -> Name \cup New]
    BY <1>1, RenamedFacts
  <2>. QED  BY <1>1, <1>2, <2>1, <2>2 DEF TypeOK, EnterProc
<1>5. /\ text[o] = o.name /\ DOMAIN map = Own(module)
      /\ Outer = map /\ Outer' = map
  BY <1>1, <1>3 DEF Inv, Outside, Walks, Outer
<1>6. Renamed(o) = After(o.name)
  <2>1. s \in Own(module)
    BY <1>1, ModuleFacts
  <2>. QED  BY <1>1, <1>3, <1>5, <2>1, RenamedFacts DEF After
<1>7. \A n : After(n)' = After(n)
  BY <1>1, <1>5 DEF After
<1>8. Outside'
  <2>1. ASSUME NEW q \in Occurrences(module)
        PROVE  /\ q.scope = Top /\ q.role \in {"decl", "call"} =>
                    text'[q] = IF q \in todo' THEN q.name ELSE After(q.name)'
               /\ q.scope = Top /\ q.role = "ref" => text'[q] = After(q.name)'
    BY <1>1, <1>3, <1>5, <1>6, <1>7 DEF Inv, Outside, Walks
  <2>2. \A q \in todo' : q.scope = Top /\ q.role \in {"decl", "call"}
    BY <1>1 DEF Inv, Outside, Walks
  <2>. QED  BY <1>1, <1>5, <2>1, <2>2 DEF Outside
<1>9. Inside'
  BY <1>1, <1>5 DEF Inv, Inside, Injective, o
<1>10. ASSUME Apart' PROVE Subroutines'
  <2>0. unique' = unique /\ Subroutines
    BY <1>1, <1>10, ApartBefore DEF Inv, EnterProc
  <2>1. ASSUME NEW t \in module.subs
        PROVE  Left(t)' <=> Left(t)
    <3>1. CASE t = s
      BY <1>1, <3>1 DEF Left, o
    <3>2. CASE t # s
      <4>1. Occ(Top, "decl", t) # o
        BY <1>3, <3>2, OccFields
      <4>. QED  BY <1>1, <3>2, <4>1 DEF Left, Walks
    <3>. QED  BY <3>1, <3>2
  <2>2. \A q \in Occurrences(module) : q.scope # Top => text'[q] = text[q]
    BY <1>1, <1>3
  <2>. QED  BY <1>1, <1>5, <2>0, <2>1, <2>2, SubroutinesFrame DEF Walks
<1>11. Injective(map)' /\ Injective(backup)'
  BY <1>1 DEF Inv, Injective
<1>. QED  BY <1>1, <1>4, <1>8, <1>9, <1>10, <1>11 DEF Inv, Pushing, Done, Walks

LEMMA PushLocalInv ==
  ASSUME Inv, NEW l \in locals, PushLocal(l) PROVE Inv'
<1>1. /\ module \in Modules /\ TypeOK /\ phase = "proc" /\ phase' = "proc" /\ module' = module
      /\ backup' = backup /\ todo' = todo /\ text' = text /\ within' = within
      /\ within \in module.subs /\ l \in {1, 2} \X Locals(module, within)
      /\ locals' = locals \ {l}
  BY DEF Inv, TypeOK, PushLocal, Inside
<1>2. l[2] \in Locals(module, within) /\ l[2] \in Name
  BY <1>1, ModuleFacts DEF Scopes
<1>3. PICK new \in NewNames(l[2]) : map' = Put(map, l[2], new) /\ unique' = Taken(unique, new)
  BY DEF PushLocal
<1>4. TypeOK'
  BY <1>1, <1>2, <1>3, PutType DEF TypeOK, PushLocal
<1>5. Injective(map') /\ Injective(backup)'
  BY <1>1, <1>2, <1>3, PutType, PutInjective DEF Inv, Injective
<1>6. Outer' = Outer /\ Outer = backup /\ \A n : After(n)' = After(n)
  BY <1>1 DEF Outer, After
<1>7. Outside'
  BY <1>1, <1>6 DEF Inv, Outside, Walks
<1>8. Inside'
  <2>1. /\ DOMAIN map' = DOMAIN map \cup {l[2]}
        /\ \A x \in DOMAIN map \cup {l[2]} : map'[x] = IF x = l[2] THEN new ELSE map[x]
    BY <1>3 DEF Put
  <2>2. \A x \in DOMAIN backup : backup[x] # new
    BY <1>1, <1>2, <1>3, PutType
  <2>3. DOMAIN backup = Own(module)
    BY <1>1, <1>6 DEF Inv, Outside, Walks
  <2>. QED  BY <1>1, <1>2, <2>1, <2>2, <2>3 DEF Inv, Inside
<1>9. ASSUME Apart' PROVE Subroutines'
  <2>0. unique \subseteq unique' /\ Subroutines
    BY <1>1, <1>3, <1>9, ApartBefore DEF Inv, Taken
  <2>1. \A t \in module.subs : Left(t)' <=> Left(t)
    BY <1>1 DEF Left, Walks
  <2>. QED  BY <1>1, <1>6, <2>0, <2>1, SubroutinesFrame DEF Walks
<1>. QED  BY <1>1, <1>4, <1>5, <1>7, <1>8, <1>9 DEF Inv, Pushing, Done, Walks

\* What is left behind of a subroutine: its declarations under the names
\* drawn for them, and its references under those or the module's.
LEMMA RenameProcSubroutines ==
  ASSUME Inv, RenameProc, Apart PROVE Subroutines'
<1>1. /\ module \in Modules /\ TypeOK /\ phase = "proc" /\ phase' = "walk" /\ module' = module
      /\ map' = backup /\ backup' = backup /\ todo' = todo /\ within' = within
      /\ text' = [o \in Occurrences(module) |-> IF o.scope = within THEN Renamed(o) ELSE text[o]]
      /\ within \in module.subs /\ Occ(Top, "decl", within) \notin todo
  BY DEF Inv, RenameProc, Inside, TypeOK, Restored
<1>2. within # Top /\ within \in Scopes(module)
  BY <1>1, ModuleFacts DEF Scopes
<1>3. /\ Outer = backup /\ Outer' = backup /\ \A n : After(n)' = After(n)
      /\ DOMAIN backup = Own(module) /\ module' = module
  BY <1>1 DEF Outer, After, Inv, Outside, Walks
<1>4. ~Left(within) /\ Ahead(within)
  BY <1>1 DEF Left, Inv, Subroutines, Walks
<1>5. /\ Own(module) \subseteq DOMAIN map
      /\ DOMAIN map \subseteq Own(module) \cup Locals(module, within)
      /\ \A n \in DOMAIN map \ Locals(module, within) : map[n] = backup[n]
      /\ \A n \in DOMAIN map : \A m \in Own(module) : map[n] = backup[m] => n = m
      /\ \A n \in DOMAIN map : map[n] \in unique
      /\ \A n \in DOMAIN backup : backup[n] \in unique
      /\ Injective(map) /\ DOMAIN map \subseteq NamesOf(module)
      /\ unique \cap NamesOf(module) = {} /\ unique' = unique
  BY <1>1, <1>2, NamesFacts DEF Inv, Inside, TypeOK, Apart, RenameProc
<1>6. ASSUME NEW o \in Occurrences(module), o.scope = within, text[o] = o.name
      PROVE  text'[o] = IF o.name \in DOMAIN map THEN map[o.name] ELSE o.name
  BY <1>1, <1>6, RenamedFacts DEF Renamed
<1>7. ASSUME NEW n \in Locals(module, within)
      PROVE  /\ text'[Occ(within, "decl", n)] = IF n \in DOMAIN map THEN map[n] ELSE n
             /\ n \in NamesOf(module)
  BY <1>1, <1>2, <1>4, <1>6, NamesFacts, UsedFacts, OccFields DEF Ahead
<1>8. ASSUME NEW role \in {"ref", "call"}, NEW n \in Used(module, within, role)
       PROVE  text'[Occ(within, role, n)] =
                IF n \in Locals(module, within) THEN text'[Occ(within, "decl", n)] ELSE After(n)
  <2>. DEFINE o == Occ(within, role, n)
  <2>1. o \in Occurrences(module) /\ o.scope = within /\ o.name = n /\ n \in Name
    BY <1>1, <1>2, OccurrenceFacts, OccFields DEF Roles
  <2>2. text[o] = n \/ (role = "ref" /\ n \notin Locals(module, within) /\ text[o] = After(n))
    BY <1>1, <1>2, <1>4, UsedFacts DEF Ahead
  <2>. HIDE DEF o
  <2>3. CASE text[o] = n
    BY <1>3, <1>5, <1>6, <1>7, <2>1, <2>3 DEF o, After
  <2>4. CASE n \notin Locals(module, within) /\ text[o] = After(n)
    <3>1. CASE n \in Own(module)
      <4>1. text[o] \in unique
        BY <1>3, <1>5, <2>4, <3>1 DEF After
      <4>2. text'[o] = text[o]
        BY <1>1, <1>5, <2>1, <4>1 DEF Renamed
      <4>. QED  BY <2>4, <4>2 DEF o
    <3>2. CASE n \notin Own(module)
      <4>1. text[o] = n /\ n \notin DOMAIN map
        BY <1>5, <2>4, <3>2 DEF After
      <4>. QED  BY <1>6, <2>1, <2>4, <4>1 DEF o
    <3>. QED  BY <3>1, <3>2
  <2>. QED  BY <2>2, <2>3, <2>4 DEF o
<1>9. Behind(within)'
  <2>1. \A n, m \in Locals(module, within) :
          text'[Occ(within, "decl", n)] = text'[Occ(within, "decl", m)] => n = m
    BY <1>5, <1>7 DEF Injective
  <2>2. \A n \in Locals(module, within) : \A m \in Own(module) :
          text'[Occ(within, "decl", n)] = backup[m] => n = m
    BY <1>3, <1>5, <1>7
  <2>3. \A n \in Locals(module, within) : \/ text'[Occ(within, "decl", n)] = n
                                          \/ text'[Occ(within, "decl", n)] \in unique'
    BY <1>5, <1>7
  <2>4. within' = within
    BY <1>1
  <2>. QED  BY <1>3, <1>8, <2>1, <2>2, <2>3, <2>4 DEF Behind
<1>10. ASSUME NEW s \in module.subs, s # within
       PROVE  IF Left(s)' THEN Behind(s)' ELSE Ahead(s)'
  <2>1. s \in Scopes(module) /\ s # Top
    BY <1>1, ModuleFacts DEF Scopes
  <2>2. Left(s)' <=> Left(s)
    BY <1>1, <1>10 DEF Left, Walks
  <2>3. \A n \in Locals(module, s) : text'[Occ(s, "decl", n)] = text[Occ(s, "decl", n)]
    BY <1>1, <1>10, <2>1, UsedFacts, OccFields
  <2>4. \A role \in {"ref", "call"} : \A n \in Used(module, s, role) :
          text'[Occ(s, role, n)] = text[Occ(s, role, n)]
    BY <1>1, <1>10, <2>1, OccurrenceFacts, OccFields DEF Roles
  <2>5. Used(module, s, "ref") = module.refs[s] /\ Used(module, s, "call") = module.calls[s]
    BY <1>1, <2>1, UsedFacts
  <2>6. IF Left(s) THEN Behind(s) ELSE Ahead(s)
    BY <1>1 DEF Inv, Subroutines, Walks
  <2>7. CASE Left(s)
    <3>1. Behind(s)
      BY <2>6, <2>7
    <3>2. Behind(s)'
      BY <1>3, <1>5, <2>3, <2>4, <3>1 DEF Behind
    <3>. QED  BY <2>2, <2>7, <3>2
  <2>8. CASE ~Left(s)
    BY <1>1, <1>3, <2>2, <2>3, <2>4, <2>5, <2>6, <2>8 DEF Ahead
  <2>. QED  BY <2>7, <2>8
<1>11. Left(within)'
  BY <1>1 DEF Left, Walks
<1>. QED  BY <1>1, <1>9, <1>10, <1>11 DEF Subroutines

LEMMA RenameProcInv ==
  ASSUME Inv, RenameProc PROVE Inv'
<1>1. /\ module \in Modules /\ TypeOK /\ phase = "proc" /\ phase' = "walk" /\ module' = module
      /\ map' = backup /\ backup' = backup /\ todo' = todo /\ within' = within
      /\ text' = [o \in Occurrences(module) |-> IF o.scope = within THEN Renamed(o) ELSE text[o]]
      /\ within \in module.subs /\ Occ(Top, "decl", within) \notin todo
  BY DEF Inv, RenameProc, Inside, TypeOK, Restored
<1>2. TypeOK'
  <2>1. text' \in [Occurrences(module) -> Name \cup New]
    BY <1>1, RenamedFacts DEF TypeOK
  <2>. QED  BY <1>1, <2>1 DEF TypeOK, RenameProc
<1>3. within # Top /\ within \in Scopes(module)
  BY <1>1, ModuleFacts DEF Scopes
<1>4. /\ Outer = backup /\ Outer' = backup /\ \A n : After(n)' = After(n)
      /\ DOMAIN backup = Own(module) /\ module' = module
  BY <1>1 DEF Outer, After, Inv, Outside, Walks
<1>5. Outside'
  BY <1>1, <1>3, <1>4 DEF Inv, Outside, Walks
<1>6. Apart' => Subroutines'
  BY <1>1, ApartBefore, RenameProcSubroutines DEF RenameProc
<1>7. Injective(map)' /\ Injective(backup)'
  BY <1>1 DEF Inv, Injective
<1>. QED  BY <1>1, <1>2, <1>5, <1>6, <1>7 DEF Inv, Pushing, Inside, Done, Walks

LEMMA FinishInv ==
  ASSUME Inv, Finish PROVE Inv'
<1>1. /\ phase = "walk" /\ phase' = "done" /\ todo = {}
      /\ UNCHANGED <<module, hash, map, unique, text, todo, within, locals, backup>>
  BY DEF Finish
<1>2. TypeOK' /\ Injective(map)' /\ Injective(backup)' /\ Outer' = Outer
  BY <1>1 DEF Inv, TypeOK, Injective, Outer
<1>3. Outside'
  BY <1>1, <1>2 DEF Inv, Outside, Walks, After
<1>4. ASSUME Apart' PROVE Subroutines'
  <2>0. Subroutines
    BY <1>1, <1>4, ApartBefore DEF Inv
  <2>1. \A s \in module.subs : Left(s)' <=> Left(s)
    BY <1>1 DEF Left, Walks
  <2>. QED  BY <1>1, <1>2, <2>0, <2>1, SubroutinesFrame DEF Inv, TypeOK, Walks
<1>. QED  BY <1>1, <1>2, <1>3, <1>4 DEF Inv, Pushing, Inside, Done, Walks

LEMMA StutterInv ==
  ASSUME Inv, UNCHANGED vars PROVE Inv'
BY DEF Inv, vars, TypeOK, Injective, Pushing, Outside, Inside, Subroutines, Done, Walks, Outer,
       After, Left, Ahead, Behind, Apart, NamesOf, Occurrences

LEMMA StepInv ==
  ASSUME Inv, [Next]_vars PROVE Inv'
<1>1. CASE \E n \in Own(module) : PushDecl(n)
  BY <1>1, PushDeclInv
<1>2. CASE ReplaceIdentifiers
  BY <1>2, ReplaceInv
<1>3. CASE \E o \in todo : RenameLocal(o)
  BY <1>3, RenameLocalInv
<1>4. CASE \E s \in module.subs : EnterProc(s)
  BY <1>4, EnterProcInv
<1>5. CASE \E l \in locals : PushLocal(l)
  BY <1>5, PushLocalInv
<1>6. CASE RenameProc
  BY <1>6, RenameProcInv
<1>7. CASE Finish
  BY <1>7, FinishInv
<1>8. CASE UNCHANGED vars
  BY <1>8, StutterInv
<1>. QED  BY <1>1, <1>2, <1>3, <1>4, <1>5, <1>6, <1>7, <1>8 DEF Next

LEMMA AlwaysInv == Spec => []Inv
<1>. QED  BY InitInv, StepInv, PTL DEF Spec

\* A module that has been renamed: what its scopes spell.
LEMMA DoneFacts ==
  ASSUME Inv, phase = "done"
  PROVE  /\ module \in Modules
         /\ \A n \in Own(module) : text[Occ(Top, "decl", n)] = After(n) /\ After(n) \in unique
         /\ \A n \in Others(module) : text[Occ(Top, "decl", n)] = n /\ After(n) = n
         /\ \A n, k \in Own(module) : After(n) = After(k) => n = k
         /\ \A role \in {"ref", "call"} : \A n \in Used(module, Top, role) :
              text[Occ(Top, role, n)] = After(n)
         /\ Apart => \A s \in module.subs : Behind(s)
<1>1. /\ module \in Modules /\ todo = {} /\ Outer = map /\ DOMAIN map = Own(module)
      /\ Injective(map) /\ Walks /\ Outside /\ (Apart => Subroutines)
      /\ \A n \in DOMAIN map : map[n] \in unique
  BY DEF Inv, Done, TypeOK, Outer, Outside, Walks
<1>2. \A n \in DeclaredIn(module, Top) :
        /\ Occ(Top, "decl", n) \in Occurrences(module)
        /\ text[Occ(Top, "decl", n)] = After(n)
  <2>1. \A n \in DeclaredIn(module, Top) : Occ(Top, "decl", n) \in Occurrences(module)
    BY <1>1, UsedFacts, OccurrenceFacts DEF Roles
  <2>. QED  BY <1>1, <2>1, OccFields DEF Outside
<1>3. \A n \in Others(module) : n \notin Own(module)
  BY <1>1, ModuleFacts
<1>4. \A role \in {"ref", "call"} : \A n \in Used(module, Top, role) :
        text[Occ(Top, role, n)] = After(n)
  <2>1. \A role \in {"ref", "call"} : \A n \in Used(module, Top, role) :
          Occ(Top, role, n) \in Occurrences(module)
    BY <1>1, UsedFacts, OccurrenceFacts DEF Roles
  <2>. QED  BY <1>1, <2>1, OccFields DEF Outside
<1>5. Apart => \A s \in module.subs : Behind(s)
  BY <1>1 DEF Subroutines, Left
<1>. QED  BY <1>1, <1>2, <1>3, <1>4, <1>5 DEF DeclaredIn, After, Injective

\* The declaration a name of the module's own scope names keeps the only
\* spelling of its kind, there and in every subroutine that does not hide it.
LEMMA TopNamed ==
  ASSUME Inv, Apart, phase = "done", NEW s \in Scopes(module), NEW n \in DeclaredIn(module, Top),
         n \notin Locals(module, s)
  PROVE  Names(s, After(n), Occ(Top, "decl", n))
<1>1. /\ module \in Modules /\ DeclaredIn(module, Top) \subseteq NamesOf(module)
      /\ DeclaredIn(module, Top) = Own(module) \cup Others(module)
      /\ Own(module) \cap Others(module) = {} /\ Locals(module, s) \subseteq NamesOf(module)
      /\ unique \cap NamesOf(module) = {}
  BY DoneFacts, ModuleFacts, NamesFacts DEF DeclaredIn, Apart
<1>2. text[Occ(Top, "decl", n)] = After(n)
  BY <1>1, DoneFacts
<1>3. ASSUME NEW k \in DeclaredIn(module, Top), text[Occ(Top, "decl", k)] = After(n)
      PROVE  k = n
  BY <1>1, <1>3, DoneFacts
<1>4. ASSUME NEW k \in Locals(module, s), text[Occ(s, "decl", k)] = After(n)
      PROVE  FALSE
  <2>1. s \in module.subs
    BY <1>4 DEF Scopes, Locals
  <2>2. Behind(s)
    BY <2>1, DoneFacts
  <2>3. n \notin Own(module)
    BY <1>4, <2>2 DEF Behind, After
  <2>4. After(n) = n
    BY <2>3 DEF After
  <2>5. text[Occ(s, "decl", k)] = k \/ text[Occ(s, "decl", k)] \in unique
    BY <2>2 DEF Behind
  <2>. QED  BY <1>1, <1>4, <2>4, <2>5
<1>. QED  BY <1>2, <1>3, <1>4 DEF Names

\* The declaration of a subroutine keeps the only spelling of its kind there.
LEMMA LocalNamed ==
  ASSUME Inv, Apart, phase = "done", NEW s \in Scopes(module), NEW n \in Locals(module, s)
  PROVE  Names(s, text[Occ(s, "decl", n)], Occ(s, "decl", n))
<1>1. s \in module.subs /\ s # Top
  BY DoneFacts, ModuleFacts DEF Scopes, Locals
<1>2. Behind(s)
  BY <1>1, DoneFacts
<1>3. \A k \in Locals(module, s) : text[Occ(s, "decl", k)] = text[Occ(s, "decl", n)] => k = n
  BY <1>2 DEF Behind
<1>. QED  BY <1>1, <1>3, OccFields DEF Names

---------------------------------------------------------------------------
\* The types, for any modules and names.
THEOREM TypeCorrect == Spec => []TypeOK
<1>1. Inv => TypeOK
  BY DEF Inv
<1>. QED  BY <1>1, AlwaysInv, PTL

\* Where no name drawn is one of the module's, every reference and every call
\* of a renamed module names what it named in the source, whatever the
\* subroutines redeclare (rename_procs, which draws for what a subroutine
\* declares and puts the map back as it was).
THEOREM BindingsKept == Spec => []SameBinding
<1>1. ASSUME Inv, Apart, phase = "done", NEW s \in Scopes(module), NEW role \in {"ref", "call"},
             NEW n \in Used(module, s, role)
      PROVE  IF n \in DeclaredIn(module, s) \cup DeclaredIn(module, Top)
             THEN Names(s, text[Occ(s, role, n)], Target(s, n))
             ELSE /\ text[Occ(s, role, n)] = n
                  /\ \A t \in {s, Top} : \A d \in DeclaredIn(module, t) :
                       text[Occ(t, "decl", d)] # n
  <2>1. /\ module \in Modules /\ n \in NamesOf(module) /\ unique \cap NamesOf(module) = {}
        /\ Top \in Scopes(module) /\ Locals(module, Top) = {}
    BY <1>1, DoneFacts, NamesFacts, UsedFacts DEF Roles, Locals, Apart
  <2>2. CASE n \in Locals(module, s)
    <3>1. s \in module.subs /\ DeclaredIn(module, s) = Locals(module, s)
      BY <2>1, <2>2, ModuleFacts DEF Scopes
    <3>2. text[Occ(s, role, n)] = text[Occ(s, "decl", n)]
      BY <1>1, <2>2, <3>1, DoneFacts DEF Behind
    <3>. QED  BY <1>1, <2>2, <3>1, <3>2, LocalNamed DEF Target
  <2>3. CASE n \notin Locals(module, s)
    <3>1. text[Occ(s, role, n)] = After(n)
      BY <1>1, <2>3, DoneFacts DEF Behind, Scopes
    <3>2. DeclaredIn(module, s) \subseteq Locals(module, s) \cup DeclaredIn(module, Top)
      BY <2>1, ModuleFacts DEF Scopes
    <3>3. CASE n \in DeclaredIn(module, Top)
      BY <1>1, <2>3, <3>1, <3>3, TopNamed DEF Target
    <3>4. CASE n \notin DeclaredIn(module, Top)
      <4>1. n \notin Own(module) /\ After(n) = n
        BY <3>4 DEF DeclaredIn, After
      <4>2. \A d \in DeclaredIn(module, Top) : text[Occ(Top, "decl", d)] # n
        BY <1>1, <2>1, <3>4, DoneFacts DEF DeclaredIn
      <4>3. \A d \in Locals(module, s) : text[Occ(s, "decl", d)] # n
        <5>1. ASSUME NEW d \in Locals(module, s)
              PROVE  text[Occ(s, "decl", d)] # n
          <6>1. s \in module.subs
            BY <5>1 DEF Scopes, Locals
          <6>2. text[Occ(s, "decl", d)] = d \/ text[Occ(s, "decl", d)] \in unique
            BY <1>1, <6>1, DoneFacts DEF Behind
          <6>. QED  BY <2>1, <2>3, <6>2
        <5>. QED  BY <5>1
      <4>4. \A t \in {s, Top} : \A d \in DeclaredIn(module, t) : text[Occ(t, "decl", d)] # n
        <5>1. CASE s = Top
          BY <4>2, <5>1
        <5>2. CASE s # Top
          <6>1. DeclaredIn(module, s) = Locals(module, s)
            BY <2>1, <5>2, ModuleFacts DEF Scopes
          <6>. QED  BY <4>2, <4>3, <6>1
        <5>. QED  BY <5>1, <5>2
      <4>. QED  BY <2>3, <3>1, <3>2, <3>4, <4>1, <4>4
    <3>. QED  BY <3>3, <3>4
  <2>. QED  BY <2>2, <2>3
<1>2. Inv => SameBinding
  BY <1>1 DEF SameBinding, Bound
<1>. QED  BY <1>2, AlwaysInv, PTL

\* Ports, parameters and instances are never touched, and in the end every
\* other name the module declares itself is replaced, no two by the same, for
\* any draws (push_decl, which enters in m_unique_id what it draws).
THEOREM InterfaceKept == Spec => []InterfaceStands
<1>1. ASSUME Inv PROVE InterfaceStands
  <2>1. module \in Modules
    BY <1>1 DEF Inv, TypeOK
  <2>2. ASSUME NEW n \in Others(module)
        PROVE  text[Occ(Top, "decl", n)] = n
    <3>1. /\ Occ(Top, "decl", n) \in Occurrences(module) /\ n \notin Own(module)
      BY <2>1, ModuleFacts, UsedFacts, OccurrenceFacts DEF DeclaredIn, Roles
    <3>2. CASE ~Walks
      BY <1>1, <3>1, <3>2, OccFields DEF Inv, Pushing, Walks
    <3>3. CASE Walks
      BY <1>1, <3>1, <3>3, OccFields DEF Inv, Outside, After
    <3>. QED  BY <3>2, <3>3
  <2>3. ASSUME phase = "done", NEW n \in Own(module)
        PROVE  /\ text[Occ(Top, "decl", n)] \in unique
               /\ \A k \in Own(module) : text[Occ(Top, "decl", k)] = text[Occ(Top, "decl", n)] => k = n
    BY <1>1, <2>3, DoneFacts
  <2>. QED  BY <2>2, <2>3 DEF InterfaceStands
<1>. QED  BY <1>1, AlwaysInv, PTL
=============================================================================
