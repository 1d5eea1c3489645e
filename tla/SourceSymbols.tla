--------------------------- MODULE SourceSymbols ----------------------------
(***************************************************************************)
(* What the Go extractor (internal/content/source_symbols_go.go) keeps of  *)
(* a parsed file for the tools that look at symbols across files: the      *)
(* names it defines, the names it mentions, who calls whom, and the        *)
(* signals that say a name must stay exported.  A name is bare: pkg.Foo,   *)
(* x.Foo and Foo are all Foo.                                              *)
(*                                                                         *)
(* A file is its declarations in order.  A "func" has a receiver type (or  *)
(* NoName), the types of its parameters and results, the calls in its body *)
(* and the types its body and type parameters name; a "type" has the types *)
(* of its fields and, for an interface, its methods; a "var" stands for    *)
(* what is outside both.                                                   *)
(* A call has a callee and the names among its arguments.  Every           *)
(* declaration has all of these fields, empty where it has no such part.   *)
(***************************************************************************)
EXTENDS Integers, Sequences, SequencesExt, FiniteSets, FiniteSetsExt

CONSTANTS
  Upper  \* names with an upper-case first letter

NoName == 0

Decls(file, what) == {i \in DOMAIN file.decls : file.decls[i].what = what}
AllDecls(file) == Range(file.decls)

(* The "functions" and "type_names" attributes; a name may come twice.     *)
Functions(file) ==
  LET funcs == SelectSeq(file.decls, LAMBDA d : d.what = "func")
  IN  [i \in DOMAIN funcs |-> funcs[i].name]
TypeNames(file) == {file.decls[i].name : i \in Decls(file, "type")}

(* "method_owners": one owner per method name, the last pair of the file.  *)
Owner(file, name) ==
  LET methods == {i \in Decls(file, "func") :
                    file.decls[i].name = name /\ file.decls[i].recv # NoName}
  IN  IF methods = {} THEN NoName ELSE file.decls[Max(methods)].recv

CallEdges(file) ==
  UNION {{<<file.decls[i].name, c.callee>> : c \in file.decls[i].calls}
         : i \in Decls(file, "func")}

(* "references": names passed as arguments, called, or used as a type, the *)
(* receiver of a method included: it is a field of the syntax tree too.    *)
ValueRefs(file) == UNION {UNION {c.args : c \in d.calls} : d \in AllDecls(file)}
CallRefs(file) == UNION {{c.callee : c \in d.calls} : d \in AllDecls(file)}
TypeRefs(file) ==
  UNION {d.params \cup d.uses \cup ({d.recv} \ {NoName}) : d \in AllDecls(file)}
References(file) == ValueRefs(file) \cup CallRefs(file) \cup TypeRefs(file)

(* "handler_boundary": the "s" and "i" signals ("v" is ValueRefs, and "p"  *)
(* the file's external flag).                                              *)
SignatureTypes(file) ==
  UNION {{<<file.decls[i].name, t>> : t \in file.decls[i].params \cap Upper}
         : i \in Decls(file, "func")}
InterfaceMethods(file) == UNION {d.methods \cap Upper : d \in AllDecls(file)}

Exported(file, name) == file.lang = "go" /\ name \in Upper
=============================================================================
