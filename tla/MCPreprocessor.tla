--------------------------- MODULE MCPreprocessor ---------------------------
(***************************************************************************)
(* The preprocessor for TLC: a file of the command line holds any items,   *)
(* one at a time; a header guards its own definition and includes itself.  *)
(***************************************************************************)
EXTENDS Preprocessor

CONSTANTS A, B, Header

Bare(op) == [op |-> op, arg |-> NoMacro]
With(op, m) == [op |-> op, arg |-> m]

MCText ==
  [h \in {Header} |->
     << With("ifndef", A), Bare("eol"), With("define", A), With("use", B), With("use", A), Bare("eol"),
        Bare("endif"), Bare("eol"), With("include", Header), Bare("eol"), With("use", A) >>]

Directives(op) == {With(op, m) : m \in {A, B}}

MCItems ==
  {Bare(op) : op \in {"text", "eol", "cont", "else", "endif", "undefineall"}}
  \cup Directives("ifdef") \cup {With("ifndef", A), With("elsif", B)}
  \cup Directives("define") \cup {With("undef", A)} \cup Directives("use")
  \cup {With("include", Header), With("include", NoMacro)}

\* A body may undefine the macro being expanded, or one below it.
MCBodyItems == Directives("use") \cup {Bare("endif"), Bare("cont"), With("undef", A)}
=============================================================================
