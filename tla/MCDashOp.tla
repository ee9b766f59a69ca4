------------------------------ MODULE MCDashOp ------------------------------
(***************************************************************************)
(* Instances of DashOp: two HTTP workers and an edit, a fired action, the  *)
(* creation of an application and an import, whose last step is a reload.  *)
(***************************************************************************)
EXTENDS DashOp, TLC

CONSTANTS edit, fire, create, import

EveryKind ==
  edit :> "edit" @@ fire :> "fire" @@ create :> "create" @@ import :> "import"
==============================================================================
