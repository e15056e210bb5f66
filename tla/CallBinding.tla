----------------------------- MODULE CallBinding -----------------------------
(***************************************************************************)
(* Which symbols a call can mean: src/src/index/call_binding.h, used by    *)
(* the resolver of an index run and by the one of the workspace.           *)
(*                                                                         *)
(* A name is the sequence of its identifiers; templates and blanks, which  *)
(* without_templates() removes, are left out, and so is the text of a      *)
(* signature: a parameter list is a sequence of the classes that           *)
(* signature_arity() tells apart, or the one class "unknown" where         *)
(* parameters() finds no list.                                             *)
(***************************************************************************)
EXTENDS Integers, SequencesExt

Params == {"plain", "optional", "rest", "unknown"}

Unlimited == -1
Unknown   == -1

NumberOf(class, params) == Len(SelectSeq(params, LAMBDA p : p = class))

(* Every parameter without a default must be given.                        *)
SignatureArity(params) ==
  [minimum |-> NumberOf("plain", params),
   maximum |-> IF NumberOf("rest", params) + NumberOf("unknown", params) > 0
               THEN Unlimited ELSE Len(params)]

(* A call's number of arguments, if known, fits the parameters; self is    *)
(* implicit in two languages, where nothing can be said.                   *)
ArityFits(target, args) ==
  LET arity == SignatureArity(target.params) IN
  \/ target.lang \in {"python", "rust"}
  \/ args = Unknown
  \/ /\ args >= arity.minimum
     /\ arity.maximum = Unlimited \/ args <= arity.maximum

BareName(name)   == Last(name)
OwnerScope(qual) == Front(qual)

(* The scope that was asked for, or one that ends with it.                 *)
SameOwner(owner, requested, absolute) ==
  /\ owner # <<>> /\ requested # <<>>
  /\ owner = requested \/ (~absolute /\ IsSuffix(requested, owner))

Callable == {"function", "method", "constructor_fn"}
CFamily  == {"c", "cpp"}

SameLanguage(a, b) == a = b \/ {a, b} \subseteq CFamily

(* compatible(): can `target` be what the call `c`, made in `caller`, is   *)
(* about?  The receiver's declared type decides, if there is one; then the *)
(* scope written in the call; then the scopes the caller is in.            *)
Compatible(target, c, caller, classes, namespaces) ==
  LET owner  == OwnerScope(target.qual)
      scope  == OwnerScope(caller.qual)
      member == target.kind = "method" \/ owner \in classes
      cpp    == caller.lang \in CFamily IN
  /\ target.kind \in Callable
  /\ SameLanguage(target.lang, caller.lang)
  /\ ArityFits(target, c.args)
  /\ IF c.hint # <<>> /\ (owner # <<>> \/ cpp) THEN SameOwner(owner, c.hint, FALSE)
     ELSE IF c.sep = "."                        THEN ~cpp
     ELSE IF c.sep = "::" /\ Len(c.name) = 1    THEN owner = <<>> /\ ~member
     ELSE IF c.sep = "::" THEN SameOwner(owner, OwnerScope(c.name), c.absolute)
     ELSE IF member       THEN SameOwner(owner, scope, TRUE)
     ELSE IF cpp /\ owner # <<>>
     THEN owner = scope \/ (owner \in namespaces /\ IsStrictPrefix(owner, scope))
     ELSE TRUE
=============================================================================
