-------------------------- MODULE AddInterfaceError --------------------------
(***************************************************************************)
(* AddInterfaceError of src/src/introspection.rs and its add_path_context: *)
(* the error of adding an interface from a file gets the file's path, and  *)
(* a later context (a directory walk adding the path it read) replaces an  *)
(* earlier one.  Paths and the wrapped InterfaceError / io::Error are      *)
(* model values; the debug! of an overwritten path is logging, left out.   *)
(***************************************************************************)
EXTENDS Naturals, Sequences

CONSTANTS
    Paths,        \* file and directory paths
    IfaceCauses,  \* InterfaceError values
    IoCauses,     \* io::Error values
    ContextBound  \* contexts added to one error

ASSUME ContextBound \in Nat

(* The three variants; backtrace is the wrapped source error.             *)
AddInterfaceErrors ==
    [kind : {"Interface"}, backtrace : IfaceCauses]
    \cup [kind : {"Io"}, path : Paths, backtrace : IoCauses]
    \cup [kind : {"InterfaceFile"}, path : Paths, backtrace : IfaceCauses]

(* Fault variant: a path already present is kept.                         *)
AddPathContextKeepPrev(e, p) ==
    IF e.kind = "Interface"
    THEN [kind |-> "InterfaceFile", path |-> p, backtrace |-> e.backtrace]
    ELSE e

(* An Interface error becomes InterfaceFile at the path; Io and            *)
(* InterfaceFile have their previous path overwritten.                    *)
AddPathContext(e, p) ==
    IF e.kind = "Interface"
    THEN [kind |-> "InterfaceFile", path |-> p, backtrace |-> e.backtrace]
    ELSE [e EXCEPT !.path = p]

-----------------------------------------------------------------------------

VARIABLES
    origin,   \* the error as first raised
    err,      \* the error after the contexts added so far
    ctx       \* the paths added, in order

vars == <<origin, err, ctx>>

Init ==
    /\ origin \in AddInterfaceErrors
    /\ err = origin
    /\ ctx = <<>>

(* The error propagates through one more path-aware caller.               *)
AddContext ==
    /\ Len(ctx) < ContextBound
    /\ \E p \in Paths :
         /\ err' = AddPathContext(err, p)
         /\ ctx' = Append(ctx, p)
    /\ UNCHANGED origin

Next == AddContext

Spec == Init /\ [][Next]_vars

-----------------------------------------------------------------------------
(* Properties                                                              *)

(* spec.md 4.8: the helper enriches an error with the file path at the    *)
(* boundary.  After any chain of add_path_context calls the error names   *)
(* the outermost path given, keeps the source error it was raised with,   *)
(* and stays an I/O error exactly when it was raised as one.              *)
ContextNamesLastPath ==
    /\ err.backtrace = origin.backtrace
    /\ (err.kind = "Io") <=> (origin.kind = "Io")
    /\ ctx # <<>> => err.kind # "Interface" /\ err.path = ctx[Len(ctx)]

=============================================================================
