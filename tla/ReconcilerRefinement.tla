------------------------ MODULE ReconcilerRefinement ------------------------
(***************************************************************************)
(* The reconciler implements DesiredState: seen from the store alone, with *)
(* all its caches, retries, faults and restarts hidden, it makes only the  *)
(* steps DesiredState allows.                                              *)
(***************************************************************************)
EXTENDS MetalLBReconciler

\* Objects of one list are placed in its order; equals come in any order.
PlacedBefore(p, o, s) == Place(p, MetalLBObjects(s)) < Place(o, MetalLBObjects(s))

Desired ==
    INSTANCE DesiredState WITH
        Name      <- defaultMetalLBCrName,
        Supported <- Deployable,
        Excused   <- NeedsDefaultNS,
        Wants     <- objsFor,
        Drops     <- toDelFor,
        Before    <- PlacedBefore,
        Owned     <- HasNamespace,
        Lasting   <- ClusterScoped,
        cr        <- crs[defaultMetalLBCrName]

(***************************************************************************)
(* Whatever is written to the cluster for "metallb" is a step of           *)
(* DesiredState: an object is placed for a spec that can be deployed here, *)
(* after every object that precedes it and after the removal of what the   *)
(* mode does without, or as garbage of a resource that is gone; the report *)
(* Available is of the stored spec, deployed.                              *)
(***************************************************************************)
ImplementsDesiredState == Desired!Spec
=============================================================================
