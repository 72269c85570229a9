-------------------------- MODULE CatalogPublisher --------------------------
(***************************************************************************)
(* publish_catalog_submission: the requests of an envelope are sent once   *)
(* each, in order, through a transport of the caller; the first that is    *)
(* not provably accepted ends the publication with an error that carries   *)
(* the number of accepted requests.  A caller may publish an envelope      *)
(* again after a failure, and several callers may publish at once.  The    *)
(* transport and the portal behind it are not part of the repository: a    *)
(* request that was sent may arrive late, several times or never, and the  *)
(* portal takes the requests of one idempotency key for one request.       *)
(*                                                                         *)
(* Columns of a proposal are numbered; 0 stands for the dataset itself.    *)
(***************************************************************************)
EXTENDS Integers

CONSTANTS
  Publications,  \* calls of publish_catalog_submission
  Proposals,     \* schema proposals
  ColumnCount,   \* ColumnCount[q]: the number of columns of proposal q
  Names,         \* catalog names given by stewards
  Tenants, Actors, Approvals,
  Plans          \* the arguments a publication may be called with

\* limit: max_requests.  checked: envelope, transport, limit and evidence are
\* of the required form.  malformed: the number of a request that is not one
\* of the graph API, or 0; the builder makes none, but an envelope is a value
\* anyone can construct.
ASSUME PlansAssumption ==
  /\ ColumnCount \in [Proposals -> Nat]
  /\ Plans \subseteq
       [handoff : [proposal : Proposals, name : Names, tenant : Tenants,
                   actor : Actors, approval : Approvals],
        limit : Nat, checked : BOOLEAN, malformed : Nat]

Handoffs == {a.handoff : a \in Plans}

VARIABLES
  plan,      \* plan[p]: the arguments of publication p
  stage,     \* stage[p]: what p is doing, or how it ended
  index,     \* index[p]: the number of the request p is at
  accepted,  \* accepted[p]: the number of its receipts so far
  sent,      \* <<p, n>>: p has handed its request n to the transport
  written    \* <<p, n>>: the portal has carried out request n of p

vars == <<plan, stage, index, accepted, sent, written>>

Running == {"ready", "waiting"}
Stopped == {"failed", "died"}

-----------------------------------------------------------------------------
(* The handoff.                                                            *)

\* The dataset, its columns, then an edge from the dataset to each column.
Count(h) == 2 * ColumnCount[h.proposal] + 1

\* Node ids and edges are derived from the proposal, labels and texts of
\* nodes from the catalog name; every body names the actor.
Node(h, c) == [path |-> "nodes", item |-> <<h.proposal, c>>,
               label |-> <<h.name>>, actor |-> h.actor]
Edge(h, c) == [path |-> "edges", item |-> <<h.proposal, c>>,
               label |-> <<>>, actor |-> h.actor]

\* Mutant: a column's edge goes before its node.
RequestEdgesFirst(h, n) ==
  IF n = 1 THEN Node(h, 0)
  ELSE IF n <= ColumnCount[h.proposal] + 1 THEN Edge(h, n - 1)
  ELSE Node(h, n - ColumnCount[h.proposal] - 1)

Request(h, n) ==
  IF n <= ColumnCount[h.proposal] + 1
    THEN Node(h, n - 1)
    ELSE Edge(h, n - ColumnCount[h.proposal] - 1)

\* Mutant: the key does not know the tenant.
KeyOfAnyTenant(h, n) ==
  [manifest |-> <<h.proposal, h.name>>, approval |-> h.approval,
   request |-> Request(h, n)]

\* The hash of these fields; the manifest id is a hash of its nodes and edges.
Key(h, n) ==
  [manifest |-> <<h.proposal, h.name>>, tenant |-> h.tenant,
   approval |-> h.approval, request |-> Request(h, n)]

HandoffOf(p) == plan[p].handoff
KeyOf(w) == Key(HandoffOf(w[1]), w[2])
Applied(h, n) == \E w \in written : KeyOf(w) = Key(h, n)

-----------------------------------------------------------------------------
(* The publisher.                                                          *)

Init ==
  /\ plan \in [Publications -> Plans]
  /\ stage = [p \in Publications |-> "new"]
  /\ index = [p \in Publications |-> 1]
  /\ accepted = [p \in Publications |-> 0]
  /\ sent = {} /\ written = {}

Become(p, s) == stage' = [stage EXCEPT ![p] = s]

\* The checks before the loop.
Begin(p) ==
  /\ stage[p] = "new"
  /\ IF plan[p].checked /\ Count(HandoffOf(p)) <= plan[p].limit
       THEN Become(p, "ready") ELSE Become(p, "refused")
  /\ UNCHANGED <<plan, index, accepted, sent, written>>

InLoop(p) == stage[p] = "ready" /\ index[p] <= Count(HandoffOf(p))

\* An unknown method, path or key, or no request at all.
RejectRequest(p) ==
  /\ InLoop(p) /\ plan[p].malformed = index[p]
  /\ Become(p, "failed")
  /\ UNCHANGED <<plan, index, accepted, sent, written>>

Send(p) ==
  /\ InLoop(p) /\ plan[p].malformed # index[p]
  /\ Become(p, "waiting")
  /\ sent' = sent \cup {<<p, index[p]>>}
  /\ UNCHANGED <<plan, index, accepted, written>>

\* A validated response: 2xx, accepted, with a request id.  The portal says
\* so only of what it has carried out.
Accept(p) ==
  /\ stage[p] = "waiting" /\ Applied(HandoffOf(p), index[p])
  /\ accepted' = [accepted EXCEPT ![p] = @ + 1]
  /\ index' = [index EXCEPT ![p] = @ + 1]
  /\ Become(p, "ready")
  /\ UNCHANGED <<plan, sent, written>>

\* Mutant: a request that is not accepted is left out.
LeaveOut(p) ==
  /\ stage[p] = "waiting"
  /\ index' = [index EXCEPT ![p] = @ + 1]
  /\ Become(p, "ready")
  /\ UNCHANGED <<plan, accepted, sent, written>>

\* Any other response, or an exception.  The request may have been carried
\* out, or may still be under way.
NotAccepted(p) ==
  /\ stage[p] = "waiting"
  /\ Become(p, "failed")
  /\ UNCHANGED <<plan, index, accepted, sent, written>>

Return(p) ==
  /\ stage[p] = "ready" /\ index[p] > Count(HandoffOf(p))
  /\ Become(p, "published")
  /\ UNCHANGED <<plan, index, accepted, sent, written>>

\* The process dies; nobody learns how far it came.
Die(p) ==
  /\ stage[p] \in Running
  /\ Become(p, "died")
  /\ UNCHANGED <<plan, index, accepted, sent, written>>

\* A request reaches the portal, perhaps again.
Arrive(p, n) ==
  /\ <<p, n>> \in sent
  /\ ~Applied(HandoffOf(p), n)
  /\ written' = written \cup {<<p, n>>}
  /\ UNCHANGED <<plan, stage, index, accepted, sent>>

Next ==
  \/ \E p \in Publications :
       \/ Begin(p) \/ RejectRequest(p) \/ Send(p) \/ Accept(p)
       \/ NotAccepted(p) \/ Return(p) \/ Die(p)
  \/ \E w \in sent : Arrive(w[1], w[2])

Spec == Init /\ [][Next]_vars

-----------------------------------------------------------------------------
(* Properties.                                                             *)

\* Types; a publication that is in its loop has a receipt for every request
\* before the one it is at.
PublisherTypeOK ==
  /\ plan \in [Publications -> Plans]
  /\ stage \in [Publications -> {"new", "refused", "published"}
                                  \cup Running \cup Stopped]
  /\ index \in [Publications -> Nat \ {0}]
  /\ accepted \in [Publications -> Nat]
  /\ sent \subseteq Publications \X Nat
  /\ written \subseteq sent
  /\ \A p \in Publications :
       /\ index[p] <= Count(HandoffOf(p)) + 1
       /\ stage[p] = "waiting" => index[p] <= Count(HandoffOf(p))
       /\ index[p] = accepted[p] + 1

\* However a publication ends, the number it reports tells what the portal
\* can hold of it: the requests up to that number have taken effect, the next
\* one may have or may still, and no later one ever will (publisher: "raises
\* CatalogPublisherError with the accepted prefix count so the caller can
\* reconcile").  A request refused by validation is never sent.
ReportBoundsPortal ==
  \A p \in Publications :
    /\ \A n \in 1..accepted[p] : Applied(HandoffOf(p), n)
    /\ \A w \in sent : w[1] = p =>
         /\ stage[p] \notin {"new", "refused"}
         /\ w[2] <= accepted[p] + 1 /\ w[2] # plan[p].malformed

\* No tenant's graph ever has an edge without the dataset and the column it
\* joins, whatever is lost, late, repeated or left unfinished.
NoDanglingEdges ==
  \A w \in written :
    LET h == HandoffOf(w[1]) IN
    Request(h, w[2]).path = "edges" =>
      \A c \in {0, Request(h, w[2]).item[2]} :
        \E v \in written :
          /\ HandoffOf(v[1]).tenant = h.tenant
          /\ Request(HandoffOf(v[1]), v[2]).path = "nodes"
          /\ Request(HandoffOf(v[1]), v[2]).item = <<h.proposal, c>>

\* The publications implement CatalogGraph: over retries, replays and
\* concurrent callers the requests of one handoff take effect in order and
\* once, separately for each tenant and approval, and a receipt means that
\* all of them have (ADR-0017: a receipt "only when every response is ...
\* accepted").
WrittenOf == [h \in Handoffs |->
  {w[2] : w \in {v \in written : HandoffOf(v[1]) = h}}]
Graph == INSTANCE CatalogGraph WITH
  Envelopes <- Handoffs,
  Size <- [h \in Handoffs |-> Count(h)],
  graph <- WrittenOf,
  receipts <- {HandoffOf(p) : p \in {r \in Publications : stage[r] = "published"}}
ImplementsGraph == Graph!Spec
=============================================================================
