----------------------- MODULE CatalogPublisherProofs -----------------------
(***************************************************************************)
(* Proofs about CatalogPublisher.  Two facts carry everything: a key       *)
(* determines the handoff and the number of the request (KeyDetermines),   *)
(* and what was sent never runs ahead of what was applied (Inv).           *)
(***************************************************************************)
EXTENDS CatalogPublisher, TLAPS

\* What a publication has sent are requests of its handoff, and a receipt is
\* given out behind the last of them.
Inv ==
  /\ PublisherTypeOK
  /\ ReportBoundsPortal
  /\ \A w \in sent : w[2] \in 1..Count(HandoffOf(w[1]))
  /\ \A p \in Publications :
       stage[p] = "published" => index[p] = Count(HandoffOf(p)) + 1

LEMMA HandoffTyped ==
  ASSUME NEW h \in Handoffs
  PROVE  /\ h \in [proposal : Proposals, name : Names, tenant : Tenants,
                   actor : Actors, approval : Approvals]
         /\ ColumnCount[h.proposal] \in Nat
         /\ Count(h) \in Nat \ {0}
<1>1. h \in [proposal : Proposals, name : Names, tenant : Tenants,
             actor : Actors, approval : Approvals]
  BY PlansAssumption DEF Handoffs
<1>2. ColumnCount[h.proposal] \in Nat
  BY <1>1, PlansAssumption
<1> QED BY <1>1, <1>2 DEF Count

\* Different requests of one handoff differ in their endpoint or their item.
LEMMA RequestDetermines ==
  ASSUME NEW h \in Handoffs, NEW n \in 1..Count(h), NEW m \in 1..Count(h),
         Request(h, n).path = Request(h, m).path,
         Request(h, n).item = Request(h, m).item
  PROVE  n = m
<1> DEFINE k == ColumnCount[h.proposal]
<1>1. k \in Nat /\ Count(h) = 2 * k + 1
  BY HandoffTyped DEF Count
<1>2. \A i \in 1..Count(h) :
        /\ i <= k + 1 => /\ Request(h, i).path = "nodes"
                         /\ Request(h, i).item = <<h.proposal, i - 1>>
        /\ i > k + 1 => /\ Request(h, i).path = "edges"
                        /\ Request(h, i).item = <<h.proposal, i - k - 1>>
  BY <1>1 DEF Request, Node, Edge
<1> HIDE DEF k
<1>3. CASE n <= k + 1
  <2>1. m <= k + 1
    BY <1>1, <1>2, <1>3
  <2>2. <<h.proposal, n - 1>> = <<h.proposal, m - 1>>
    BY <1>2, <1>3, <2>1
  <2> QED BY <2>2
<1>4. CASE n > k + 1
  <2>1. m > k + 1
    BY <1>1, <1>2, <1>4
  <2>2. <<h.proposal, n - k - 1>> = <<h.proposal, m - k - 1>>
    BY <1>2, <1>4, <2>1
  <2> QED BY <2>2, <1>1
<1> QED BY <1>1, <1>3, <1>4

\* An idempotency key stands for one request of one handoff.
LEMMA KeyDetermines ==
  ASSUME NEW h \in Handoffs, NEW g \in Handoffs,
         NEW n \in 1..Count(h), NEW m \in 1..Count(g),
         Key(h, n) = Key(g, m)
  PROVE  h = g /\ n = m
<1>1. /\ <<h.proposal, h.name>> = <<g.proposal, g.name>>
      /\ h.tenant = g.tenant
      /\ h.approval = g.approval
      /\ Request(h, n) = Request(g, m)
  <2>1. /\ Key(h, n).manifest = Key(g, m).manifest
        /\ Key(h, n).tenant = Key(g, m).tenant
        /\ Key(h, n).approval = Key(g, m).approval
        /\ Key(h, n).request = Key(g, m).request
    OBVIOUS
  <2> QED BY <2>1 DEF Key
<1>2. \A f \in Handoffs : \A i \in 1..Count(f) : Request(f, i).actor = f.actor
  BY DEF Request, Node, Edge
<1>3. h.actor = g.actor
  BY <1>1, <1>2
<1>4. h = g
  BY <1>1, <1>3, HandoffTyped
<1>5. n = m
  BY <1>1, <1>4, RequestDetermines
<1> QED BY <1>4, <1>5

LEMMA HandoffOfTyped ==
  ASSUME PublisherTypeOK, NEW p \in Publications
  PROVE  HandoffOf(p) \in Handoffs /\ Count(HandoffOf(p)) \in Nat \ {0}
<1>1. plan[p] \in Plans
  BY DEF PublisherTypeOK
<1>2. HandoffOf(p) \in Handoffs
  BY <1>1 DEF HandoffOf, Handoffs
<1> QED BY <1>2, HandoffTyped

-----------------------------------------------------------------------------
(* The invariant.                                                          *)

LEMMA InitInv == Init => Inv
<1> SUFFICES ASSUME Init PROVE Inv
  OBVIOUS
<1>1. \A p \in Publications : Count(HandoffOf(p)) \in Nat \ {0}
  <2> TAKE p \in Publications
  <2>1. plan[p] \in Plans
    BY DEF Init
  <2>2. HandoffOf(p) \in Handoffs
    BY <2>1 DEF HandoffOf, Handoffs
  <2> QED BY <2>2, HandoffTyped
<1>2. \A p \in Publications :
        /\ stage[p] = "new" /\ index[p] = 1 /\ accepted[p] = 0
        /\ index[p] <= Count(HandoffOf(p)) + 1
        /\ 1..accepted[p] = {}
  <2> TAKE p \in Publications
  <2>1. stage[p] = "new" /\ index[p] = 1 /\ accepted[p] = 0
    BY DEF Init
  <2>2. 1 <= Count(HandoffOf(p)) + 1
    BY <1>1
  <2> QED BY <2>1, <2>2
<1>3. PublisherTypeOK
  <2>1. /\ plan \in [Publications -> Plans]
        /\ stage \in [Publications -> {"new", "refused", "published"}
                                        \cup Running \cup Stopped]
        /\ index \in [Publications -> Nat \ {0}]
        /\ accepted \in [Publications -> Nat]
        /\ sent \subseteq Publications \X Nat
        /\ written \subseteq sent
    BY DEF Init
  <2> QED BY <1>2, <2>1 DEF PublisherTypeOK
<1>4. ReportBoundsPortal
  <2>1. sent = {}
    BY DEF Init
  <2> QED BY <1>2, <2>1 DEF ReportBoundsPortal
<1> QED BY <1>2, <1>3, <1>4 DEF Init, Inv

\* Steps of one publication that only change how far it has come: what is
\* written stays written, so that only the type and the stage matter.
LEMMA StageStep ==
  ASSUME Inv, NEW p \in Publications, NEW s \in {"ready", "refused", "failed", "died"},
         stage[p] \in {"new"} \cup Running,
         s = "refused" => stage[p] = "new",
         Become(p, s), UNCHANGED <<plan, index, accepted, sent, written>>
  PROVE  Inv'
<1>1. PublisherTypeOK'
  BY DEF Inv, PublisherTypeOK, Become, Running, Stopped, HandoffOf
<1>2. ReportBoundsPortal'
  BY DEF Inv, PublisherTypeOK, ReportBoundsPortal, Become, Running, Applied,
         KeyOf, HandoffOf
<1> QED BY <1>1, <1>2 DEF Inv, PublisherTypeOK, Become, HandoffOf

LEMMA SendStep ==
  ASSUME Inv, NEW p \in Publications, Send(p)
  PROVE  Inv'
<1>1. /\ Count(HandoffOf(p)) \in Nat
      /\ index[p] \in 1..Count(HandoffOf(p))
  BY HandoffOfTyped DEF Inv, PublisherTypeOK, Send, InLoop
<1>2. PublisherTypeOK'
  BY <1>1 DEF Inv, PublisherTypeOK, Send, InLoop, Become, Running, HandoffOf
<1>3. ReportBoundsPortal'
  <2> SUFFICES ASSUME NEW q \in Publications
               PROVE  /\ \A n \in 1..accepted'[q] : Applied(HandoffOf(q), n)'
                      /\ \A w \in sent' : w[1] = q =>
                           /\ stage'[q] \notin {"new", "refused"}
                           /\ w[2] <= accepted'[q] + 1
                           /\ w[2] # plan'[q].malformed
    BY DEF ReportBoundsPortal
  <2>1. \A n \in 1..accepted'[q] : Applied(HandoffOf(q), n)'
    BY DEF Inv, ReportBoundsPortal, Send, Applied, KeyOf, HandoffOf
  <2>2. ASSUME NEW w \in sent, w[1] = q
        PROVE  /\ stage'[q] \notin {"new", "refused"}
               /\ w[2] <= accepted'[q] + 1
               /\ w[2] # plan'[q].malformed
    BY <2>2 DEF Inv, ReportBoundsPortal, PublisherTypeOK, Send, Become
  <2>3. ASSUME q = p
        PROVE  /\ stage'[q] \notin {"new", "refused"}
               /\ index[p] <= accepted'[q] + 1
               /\ index[p] # plan'[q].malformed
    BY <2>3 DEF Inv, PublisherTypeOK, Send, Become
  <2> QED BY <2>1, <2>2, <2>3 DEF Send
<1>4. \A w \in sent' : w[2] \in 1..Count(HandoffOf(w[1]))'
  BY <1>1 DEF Inv, Send, HandoffOf
<1>5. \A q \in Publications :
        stage'[q] = "published" => index'[q] = Count(HandoffOf(q))' + 1
  BY DEF Inv, PublisherTypeOK, Send, Become, HandoffOf
<1> QED BY <1>2, <1>3, <1>4, <1>5 DEF Inv

LEMMA AcceptStep ==
  ASSUME Inv, NEW p \in Publications, Accept(p)
  PROVE  Inv'
<1>1. Count(HandoffOf(p)) \in Nat /\ index[p] <= Count(HandoffOf(p))
  BY HandoffOfTyped DEF Inv, PublisherTypeOK, Accept
<1>2. PublisherTypeOK'
  BY <1>1 DEF Inv, PublisherTypeOK, Accept, Become, Running, HandoffOf
<1>3. ReportBoundsPortal'
  <2> SUFFICES ASSUME NEW q \in Publications
               PROVE  /\ \A n \in 1..accepted'[q] : Applied(HandoffOf(q), n)'
                      /\ \A w \in sent' : w[1] = q =>
                           /\ stage'[q] \notin {"new", "refused"}
                           /\ w[2] <= accepted'[q] + 1
                           /\ w[2] # plan'[q].malformed
    BY DEF ReportBoundsPortal
  <2>1. ASSUME NEW n \in 1..accepted'[q]
        PROVE  Applied(HandoffOf(q), n)
    <3>1. CASE q = p /\ n = index[p]
      BY <3>1 DEF Accept
    <3>2. CASE ~(q = p /\ n = index[p])
      <4>1. n \in 1..accepted[q]
        BY <3>2 DEF Inv, PublisherTypeOK, Accept
      <4> QED BY <4>1 DEF Inv, ReportBoundsPortal
    <3> QED BY <3>1, <3>2
  <2>2. \A n \in 1..accepted'[q] : Applied(HandoffOf(q), n)'
    BY <2>1 DEF Accept, Applied, KeyOf, HandoffOf
  <2>3. ASSUME NEW w \in sent', w[1] = q
        PROVE  /\ stage'[q] \notin {"new", "refused"}
               /\ w[2] <= accepted'[q] + 1
               /\ w[2] # plan'[q].malformed
    <3>1. w \in sent /\ w[2] \in Nat
      BY DEF Accept, Inv, PublisherTypeOK
    <3> QED BY <2>3, <3>1 DEF Inv, ReportBoundsPortal, PublisherTypeOK, Accept, Become
  <2> QED BY <2>2, <2>3
<1>4. \A w \in sent' : w[2] \in 1..Count(HandoffOf(w[1]))'
  BY DEF Inv, Accept, HandoffOf
<1>5. \A q \in Publications :
        stage'[q] = "published" => index'[q] = Count(HandoffOf(q))' + 1
  BY DEF Inv, PublisherTypeOK, Accept, Become, HandoffOf
<1> QED BY <1>2, <1>3, <1>4, <1>5 DEF Inv

LEMMA ReturnStep ==
  ASSUME Inv, NEW p \in Publications, Return(p)
  PROVE  Inv'
<1>1. index[p] = Count(HandoffOf(p)) + 1
  BY HandoffOfTyped DEF Inv, PublisherTypeOK, Return
<1>2. PublisherTypeOK'
  BY DEF Inv, PublisherTypeOK, Return, Become, Running, Stopped, HandoffOf
<1>3. ReportBoundsPortal'
  BY DEF Inv, PublisherTypeOK, ReportBoundsPortal, Return, Become, Applied,
         KeyOf, HandoffOf
<1> QED BY <1>1, <1>2, <1>3 DEF Inv, PublisherTypeOK, Return, Become, HandoffOf

LEMMA ArriveStep ==
  ASSUME Inv, NEW w \in sent, Arrive(w[1], w[2])
  PROVE  Inv'
<1>1. w = <<w[1], w[2]>>
  BY DEF Inv, PublisherTypeOK
<1>2. PublisherTypeOK'
  BY <1>1 DEF Inv, PublisherTypeOK, Arrive, HandoffOf
<1>3. ASSUME NEW p \in Publications, NEW n \in 1..accepted[p]
      PROVE  Applied(HandoffOf(p), n)'
  <2>1. PICK v \in written : KeyOf(v) = Key(HandoffOf(p), n)
    BY <1>3 DEF Inv, ReportBoundsPortal, Applied
  <2>2. v \in written'
    BY DEF Arrive
  <2> QED BY <2>1, <2>2 DEF Applied, Arrive, KeyOf, HandoffOf
<1>4. ReportBoundsPortal'
  BY <1>3 DEF Inv, ReportBoundsPortal, Arrive
<1> QED BY <1>2, <1>4 DEF Inv, Arrive, HandoffOf

LEMMA NextInv == Inv /\ [Next]_vars => Inv'
<1> SUFFICES ASSUME Inv, [Next]_vars PROVE Inv'
  OBVIOUS
<1>1. ASSUME NEW p \in Publications, Begin(p)
      PROVE  Inv'
  BY <1>1, StageStep DEF Begin
<1>2. ASSUME NEW p \in Publications, RejectRequest(p)
      PROVE  Inv'
  BY <1>2, StageStep DEF RejectRequest, InLoop, Running
<1>3. ASSUME NEW p \in Publications, Send(p)
      PROVE  Inv'
  BY <1>3, SendStep
<1>4. ASSUME NEW p \in Publications, Accept(p)
      PROVE  Inv'
  BY <1>4, AcceptStep
<1>5. ASSUME NEW p \in Publications, NotAccepted(p)
      PROVE  Inv'
  BY <1>5, StageStep DEF NotAccepted, Running
<1>6. ASSUME NEW p \in Publications, Return(p)
      PROVE  Inv'
  BY <1>6, ReturnStep
<1>7. ASSUME NEW p \in Publications, Die(p)
      PROVE  Inv'
  BY <1>7, StageStep DEF Die
<1>8. ASSUME NEW w \in sent, Arrive(w[1], w[2])
      PROVE  Inv'
  BY <1>8, ArriveStep
<1>9. CASE UNCHANGED vars
  BY <1>9 DEF vars, Inv, PublisherTypeOK, ReportBoundsPortal, Applied, KeyOf,
          HandoffOf
<1> QED BY <1>1, <1>2, <1>3, <1>4, <1>5, <1>6, <1>7, <1>8, <1>9 DEF Next

LEMMA Invariance == Spec => []Inv
  BY InitInv, NextInv, PTL DEF Spec

\* A publication has one receipt per request before the one it is at, whatever
\* the transport answers.
THEOREM PublisherTypeCorrect == Spec => []PublisherTypeOK
<1>1. Inv => PublisherTypeOK
  BY DEF Inv
<1> QED BY <1>1, Invariance, PTL

\* The number of accepted requests in an error bounds what the portal holds.
THEOREM ReportCorrect == Spec => []ReportBoundsPortal
<1>1. Inv => ReportBoundsPortal
  BY DEF Inv
<1> QED BY <1>1, Invariance, PTL

-----------------------------------------------------------------------------
(* The order in which requests take effect.                                *)

\* Behind every request that took effect are those before it.
LEMMA Prefix ==
  ASSUME Inv, NEW w \in sent, NEW n \in 1..(w[2] - 1)
  PROVE  Applied(HandoffOf(w[1]), n)
<1>1. w[1] \in Publications /\ w[2] \in Nat
  BY DEF Inv, PublisherTypeOK
<1>2. w[2] <= accepted[w[1]] + 1 /\ accepted[w[1]] \in Nat
  BY <1>1 DEF Inv, ReportBoundsPortal, PublisherTypeOK
<1> QED BY <1>1, <1>2 DEF Inv, ReportBoundsPortal

\* What has the key of a request is that request, sent by some publication of
\* the same handoff.
LEMMA AppliedBySame ==
  ASSUME Inv, NEW h \in Handoffs, NEW n \in 1..Count(h)
  PROVE  Applied(h, n) <=> n \in WrittenOf[h]
<1>1. WrittenOf[h] = {w[2] : w \in {v \in written : HandoffOf(v[1]) = h}}
  BY DEF WrittenOf
<1>2. ASSUME NEW w \in written
      PROVE  /\ HandoffOf(w[1]) \in Handoffs
             /\ w[2] \in 1..Count(HandoffOf(w[1]))
  BY HandoffOfTyped DEF Inv, PublisherTypeOK
<1>3. ASSUME NEW w \in written, KeyOf(w) = Key(h, n)
      PROVE  HandoffOf(w[1]) = h /\ w[2] = n
  BY <1>2, <1>3, KeyDetermines DEF KeyOf
<1>4. ASSUME NEW w \in written, HandoffOf(w[1]) = h, w[2] = n
      PROVE  KeyOf(w) = Key(h, n)
  BY <1>4 DEF KeyOf
<1> QED BY <1>1, <1>3, <1>4 DEF Applied

\* The requests of a handoff that took effect are its first ones.
LEMMA WrittenIsPrefix ==
  ASSUME Inv, NEW h \in Handoffs, NEW n \in WrittenOf[h]
  PROVE  n \in 1..Count(h) /\ 1..n \subseteq WrittenOf[h]
<1>1. PICK w \in written : HandoffOf(w[1]) = h /\ w[2] = n
  BY DEF WrittenOf
<1>2. w \in sent /\ n \in 1..Count(h) /\ Count(h) \in Nat
  BY <1>1, HandoffTyped DEF Inv, PublisherTypeOK
<1>3. ASSUME NEW m \in 1..n
      PROVE  m \in WrittenOf[h]
  <2>1. CASE m = n
    BY <2>1
  <2>2. CASE m # n
    <3>1. m \in 1..(w[2] - 1) /\ m \in 1..Count(h)
      BY <1>1, <1>2, <2>2
    <3>2. Applied(h, m)
      BY <1>1, <1>2, <3>1, Prefix
    <3> QED BY <3>1, <3>2, AppliedBySame
  <2> QED BY <2>1, <2>2
<1> QED BY <1>2, <1>3

LEMMA EdgesClosed == Inv => NoDanglingEdges
<1> SUFFICES ASSUME Inv, NEW w \in written,
                    Request(HandoffOf(w[1]), w[2]).path = "edges",
                    NEW c \in {0, Request(HandoffOf(w[1]), w[2]).item[2]}
             PROVE  \E v \in written :
                      /\ HandoffOf(v[1]).tenant = HandoffOf(w[1]).tenant
                      /\ Request(HandoffOf(v[1]), v[2]).path = "nodes"
                      /\ Request(HandoffOf(v[1]), v[2]).item =
                           <<HandoffOf(w[1]).proposal, c>>
  BY DEF NoDanglingEdges
<1> DEFINE h == HandoffOf(w[1])
           k == ColumnCount[h.proposal]
<1>1. /\ w \in sent /\ h \in Handoffs
      /\ k \in Nat /\ Count(h) = 2 * k + 1
      /\ w[2] \in 1..Count(h)
  BY HandoffOfTyped, HandoffTyped DEF Inv, PublisherTypeOK, Count
<1>2. w[2] > k + 1
  BY <1>1 DEF Request, Node
<1>3. Request(h, w[2]).item[2] = w[2] - k - 1
  BY <1>1, <1>2 DEF Request, Edge
<1>4. c \in 0..k /\ c + 1 \in 1..(w[2] - 1) /\ c + 1 \in 1..Count(h)
  BY <1>1, <1>2, <1>3
<1>5. c + 1 \in WrittenOf[h]
  BY <1>1, <1>4, Prefix, AppliedBySame
<1>6. PICK v \in written : HandoffOf(v[1]) = h /\ v[2] = c + 1
  BY <1>1, <1>5 DEF WrittenOf
<1>7. Request(h, c + 1) = Node(h, c)
  BY <1>1, <1>4 DEF Request
<1> QED BY <1>6, <1>7 DEF Node

\* Every edge in a tenant's graph joins a dataset and a column that are there.
THEOREM GraphClosed == Spec => []NoDanglingEdges
  BY EdgesClosed, Invariance, PTL

-----------------------------------------------------------------------------
(* Refinement.                                                             *)

receiptsOf == {HandoffOf(p) : p \in {r \in Publications : stage[r] = "published"}}

\* A request that arrives for the first time is the next one of its handoff.
LEMMA ArriveApplies ==
  ASSUME Inv, NEW w \in sent, Arrive(w[1], w[2])
  PROVE  Graph!Apply(HandoffOf(w[1]))
<1> DEFINE h == HandoffOf(w[1])
<1>1. /\ w = <<w[1], w[2]>> /\ h \in Handoffs
      /\ w[2] \in 1..Count(h) /\ Count(h) \in Nat
  BY HandoffOfTyped DEF Inv, PublisherTypeOK
<1>2. w[2] \notin WrittenOf[h]
  BY <1>1, AppliedBySame DEF Arrive
<1>3. WrittenOf[h] = 1..(w[2] - 1)
  <2>1. ASSUME NEW n \in 1..(w[2] - 1)
        PROVE  n \in WrittenOf[h]
    BY <1>1, Prefix, AppliedBySame
  <2>2. ASSUME NEW n \in WrittenOf[h]
        PROVE  n \in 1..(w[2] - 1)
    BY <1>1, <1>2, WrittenIsPrefix
  <2> QED BY <2>1, <2>2
<1>4. WrittenOf' = [WrittenOf EXCEPT ![h] = 1..w[2]]
  <2>1. written' = written \cup {w} /\ plan' = plan
    BY <1>1 DEF Arrive
  <2>2. \A g \in Handoffs :
          {v \in written' : HandoffOf(v[1])' = g} =
            {v \in written : HandoffOf(v[1]) = g} \cup (IF g = h THEN {w} ELSE {})
    BY <2>1 DEF HandoffOf
  <2>3. \A g \in Handoffs :
          WrittenOf'[g] = WrittenOf[g] \cup (IF g = h THEN {w[2]} ELSE {})
    BY <2>2 DEF WrittenOf
  <2>4. WrittenOf[h] \cup {w[2]} = 1..w[2]
    BY <1>1, <1>3
  <2>5. \A g \in Handoffs :
          WrittenOf'[g] = [WrittenOf EXCEPT ![h] = 1..w[2]][g]
    BY <2>3, <2>4 DEF WrittenOf
  <2> QED BY <2>5 DEF WrittenOf
<1>5. UNCHANGED receiptsOf
  BY DEF Arrive, receiptsOf, HandoffOf
<1>6. [g \in Handoffs |-> Count(g)][h] = Count(h)
  BY <1>1
<1> QED BY <1>1, <1>3, <1>4, <1>5, <1>6 DEF Graph!Apply, receiptsOf

LEMMA ReturnConfirms ==
  ASSUME Inv, NEW p \in Publications, Return(p),
         NEW h \in Handoffs, h = HandoffOf(p)
  PROVE  Graph!Confirm(h)
<1>1. h \in Handoffs /\ Count(h) \in Nat
  BY HandoffOfTyped DEF Inv
<1>2. accepted[p] = Count(h)
  BY <1>1 DEF Inv, PublisherTypeOK, Return
<1>3. WrittenOf[h] = 1..Count(h)
  <2>1. ASSUME NEW n \in 1..Count(h)
        PROVE  n \in WrittenOf[h]
    <3>1. Applied(h, n)
      BY <1>2 DEF Inv, ReportBoundsPortal
    <3> QED BY <1>1, <3>1, AppliedBySame
  <2> QED BY <1>1, <2>1, WrittenIsPrefix
<1>4. receiptsOf' = receiptsOf \cup {h}
  <2>1. {r \in Publications : stage'[r] = "published"} =
          {r \in Publications : stage[r] = "published"} \cup {p}
    BY DEF Inv, PublisherTypeOK, Return, Become
  <2>2. \A r \in Publications : HandoffOf(r)' = HandoffOf(r)
    BY DEF Return, HandoffOf
  <2> QED BY <2>1, <2>2 DEF receiptsOf
<1>5. UNCHANGED WrittenOf
  BY DEF Return, WrittenOf, HandoffOf
<1>6. [g \in Handoffs |-> Count(g)][h] = Count(h)
  BY <1>1
<1> QED BY <1>3, <1>4, <1>5, <1>6 DEF Graph!Confirm, receiptsOf

\* Every other step changes neither the graph nor the receipts.
LEMMA OthersStutter ==
  ASSUME Inv, NEW p \in Publications,
         \/ Begin(p) \/ RejectRequest(p) \/ Send(p) \/ Accept(p)
         \/ NotAccepted(p) \/ Die(p)
  PROVE  UNCHANGED <<WrittenOf, receiptsOf>>
<1>1. /\ UNCHANGED <<plan, written>>
      /\ \E s \in {"ready", "refused", "waiting", "failed", "died"} : Become(p, s)
      /\ stage[p] # "published"
  BY DEF Begin, RejectRequest, Send, Accept, NotAccepted, Die, InLoop, Running
<1>2. {r \in Publications : stage'[r] = "published"} =
        {r \in Publications : stage[r] = "published"}
  BY <1>1 DEF Inv, PublisherTypeOK, Become
<1>3. \A r \in Publications : HandoffOf(r)' = HandoffOf(r)
  BY <1>1 DEF HandoffOf
<1>4. UNCHANGED receiptsOf
  BY <1>2, <1>3 DEF receiptsOf
<1>5. UNCHANGED WrittenOf
  BY <1>1 DEF WrittenOf, HandoffOf
<1> QED BY <1>4, <1>5

\* Over retries, replays, losses and concurrent callers, publishing looks to
\* the portal's tenants like CatalogGraph.
THEOREM PublisherImplementsGraph == Spec => ImplementsGraph
<1>1. Init => Graph!Init
  <2> SUFFICES ASSUME Init PROVE Graph!Init
    OBVIOUS
  <2>1. WrittenOf = [h \in Handoffs |-> {}]
    BY DEF Init, WrittenOf
  <2>2. receiptsOf = {}
    BY DEF Init, receiptsOf
  <2> QED BY <2>1, <2>2 DEF Graph!Init, receiptsOf
<1>2. Inv /\ [Next]_vars => [Graph!Next]_<<WrittenOf, receiptsOf>>
  <2> SUFFICES ASSUME Inv, [Next]_vars
               PROVE  Graph!Next \/ UNCHANGED <<WrittenOf, receiptsOf>>
    OBVIOUS
  <2>1. ASSUME NEW p \in Publications,
               \/ Begin(p) \/ RejectRequest(p) \/ Send(p) \/ Accept(p)
               \/ NotAccepted(p) \/ Die(p)
        PROVE  UNCHANGED <<WrittenOf, receiptsOf>>
    BY <2>1, OthersStutter
  <2>2. ASSUME NEW p \in Publications, Return(p)
        PROVE  Graph!Next
    <3>1. PICK h \in Handoffs : h = HandoffOf(p)
      BY HandoffOfTyped DEF Inv
    <3>2. Graph!Confirm(h)
      BY <2>2, <3>1, ReturnConfirms
    <3> QED BY <3>2 DEF Graph!Next
  <2>3. ASSUME NEW w \in sent, Arrive(w[1], w[2])
        PROVE  Graph!Next
    <3>1. HandoffOf(w[1]) \in Handoffs
      BY HandoffOfTyped DEF Inv, PublisherTypeOK
    <3> QED BY <2>3, <3>1, ArriveApplies DEF Graph!Next
  <2>4. CASE UNCHANGED vars
    BY <2>4 DEF vars, WrittenOf, receiptsOf, HandoffOf
  <2> QED BY <2>1, <2>2, <2>3, <2>4 DEF Next
<1> QED BY <1>1, <1>2, Invariance, PTL
     DEF Spec, ImplementsGraph, Graph!Spec, receiptsOf
=============================================================================
