------------------------- MODULE MCCatalogPublisher -------------------------
(* Instances of CatalogPublisher for TLC. *)
EXTENDS CatalogPublisher

\* A proposal with two columns and one without any.
MCColumnCount == [q \in Proposals |-> IF q = "wide" THEN 2 ELSE 0]

Plan(h, limit, checked, malformed) ==
  [handoff |-> h, limit |-> limit, checked |-> checked, malformed |-> malformed]
Base == [proposal |-> "wide", name |-> "voc", tenant |-> "t1",
         actor |-> "alice", approval |-> "first"]

\* One handoff, and others that differ from it in one respect; then calls
\* that are refused, over the limit, or have a malformed request.
MCPlans ==
  LET Fine(h) == Plan(h, 5, TRUE, 0) IN
  {Fine(Base), Fine([Base EXCEPT !.tenant = "t2"]),
   Fine([Base EXCEPT !.name = "complaints"]), Fine([Base EXCEPT !.actor = "bob"]),
   Fine([Base EXCEPT !.approval = "second"]), Fine([Base EXCEPT !.proposal = "bare"]),
   Plan(Base, 4, TRUE, 0), Plan(Base, 5, FALSE, 0), Plan(Base, 5, TRUE, 4)}
=============================================================================
