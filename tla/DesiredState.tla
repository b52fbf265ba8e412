---------------------------- MODULE DesiredState ----------------------------
(***************************************************************************)
(* What the operator promises about the store, with no caches, queues,     *)
(* timers or steps of a reconcile: one resource, the objects it asks for,  *)
(* and the condition it reports.                                           *)
(*                                                                         *)
(* The resource's owner creates, edits and deletes it.  The operator       *)
(* places objects for some spec it was once asked for, in the order that   *)
(* spec demands; it may be a spec behind the times, and the resource may   *)
(* be gone already.  It removes optional objects the spec does without.    *)
(* And it reports: Available only of a spec that is deployed.              *)
(*                                                                         *)
(* The charts are parameters here: the module ReconcilerRefinement says    *)
(* what they are for MetalLB.                                              *)
(***************************************************************************)

CONSTANTS
    Specs,          \* the specs that may be asked for
    Objects,        \* the objects there may be
    Name,           \* the resource's name, the owner of its objects
    Supported(_),   \* can a spec be deployed here?
    Excused(_),     \* specs Available promises nothing about
    Wants(_),       \* the objects of a spec
    Drops(_),       \* the optional objects removed first
    Before(_, _, _),\* is one object placed before another for a spec?
    Content(_, _),  \* what an object holds for a spec
    Owned(_),       \* does an object have an owner?
    Lasting(_),     \* is an object never collected?
    None

VARIABLES
    cr,             \* the resource: its spec and condition, or None
    objs            \* the objects: content and owner, or None

vars == <<cr, objs>>

Conditions == {"Available", "Progressing", "Degraded"}

Owner(o, alive) == IF ~Owned(o) THEN "none" ELSE IF alive THEN Name ELSE "gone"

InPlace(o, s) ==
    /\ objs[o] # None
    /\ objs[o].content = Content(s, o)
    /\ objs[o].owner = Owner(o, TRUE)

\* Nothing is left of what s does without.
Tidy(s) == \A o \in Drops(s) \ Wants(s) : objs[o] = None

Deployed(s) == Tidy(s) /\ \A o \in Wants(s) : InPlace(o, s)

Init ==
    /\ cr = None
    /\ objs = [o \in Objects |-> None]

-----------------------------------------------------------------------------
Create(s) ==
    /\ cr = None
    /\ cr' = [spec |-> s, cond |-> "none"]
    /\ UNCHANGED objs

Edit(s) ==
    /\ cr # None
    /\ cr' = [cr EXCEPT !.spec = s]
    /\ UNCHANGED objs

\* The objects outlive the resource until they are collected.
Delete ==
    /\ cr # None
    /\ cr' = None
    /\ objs' = [o \in Objects |-> IF objs[o] # None /\ objs[o].owner = Name
                                  THEN [objs[o] EXCEPT !.owner = "gone"] ELSE objs[o]]

Collect ==
    /\ objs' = [o \in Objects |-> IF objs[o] # None /\ objs[o].owner = "gone" /\ ~Lasting(o)
                                  THEN None ELSE objs[o]]
    /\ UNCHANGED cr

\* An object is placed for the living resource, after those before it.
Place(o, s) ==
    /\ cr # None
    /\ Supported(s) /\ o \in Wants(s)
    /\ Tidy(s)
    /\ \A p \in Wants(s) : Before(p, o, s) => InPlace(p, s)
    /\ objs' = [objs EXCEPT ![o] = [content |-> Content(s, o), owner |-> Owner(o, TRUE)]]
    /\ UNCHANGED cr

\* The tail of a sync for a resource deleted meanwhile: it is garbage at once.
PlaceOrphan(o, s) ==
    /\ Supported(s) /\ o \in Wants(s)
    /\ objs' = [objs EXCEPT ![o] = [content |-> Content(s, o), owner |-> Owner(o, FALSE)]]
    /\ UNCHANGED cr

Remove(o, s) ==
    /\ Supported(s) /\ o \in Drops(s)
    /\ objs' = [objs EXCEPT ![o] = None]
    /\ UNCHANGED cr

Report(c) ==
    /\ cr # None
    /\ c = "Available" => Deployed(cr.spec) \/ Excused(cr.spec)
    /\ cr' = [cr EXCEPT !.cond = c]
    /\ UNCHANGED objs

-----------------------------------------------------------------------------
Next ==
    \/ \E s \in Specs : Create(s) \/ Edit(s)
    \/ Delete \/ Collect
    \/ \E o \in Objects, s \in Specs : Place(o, s) \/ PlaceOrphan(o, s) \/ Remove(o, s)
    \/ \E c \in Conditions : Report(c)

Spec == Init /\ [][Next]_vars
=============================================================================
