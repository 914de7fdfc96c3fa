---------------------------- MODULE PppFsm_proofs ----------------------------
(***************************************************************************)
(* Facts about the handlers of PppFsm on any automaton of the right type:   *)
(* the type is kept, and a counter-offer marks a table entry.               *)
(***************************************************************************)
EXTENDS PppFsm, TLAPS, WellFoundedInduction, FiniteSetTheorems

(***************************************************************************)
(* A set of naturals has a least element, a bounded one a greatest: the     *)
(* choices of an option by position exist.                                  *)
(***************************************************************************)
LEMMA LeastExists ==
    ASSUME NEW K \in SUBSET Nat, K # {}
    PROVE  \E k \in K : \A j \in K : k <= j
<1>1. IsWellFoundedOn(OpToRel(<, Nat), Nat)
  BY NatLessThanWellFounded
<1>2. PICK k \in K : \A j \in K : ~ (<<j, k>> \in OpToRel(<, Nat))
  BY <1>1, WFMin, Zenon
<1>3. \A j \in K : ~ (j < k)
  BY <1>2 DEF OpToRel
<1>4. QED
  BY <1>3

LEMMA GreatestExists ==
    ASSUME NEW n \in Nat, NEW K \in SUBSET (1..n), K # {}
    PROVE  \E k \in K : \A j \in K : j <= k
<1> DEFINE T == {m \in Nat : n - m \in K}
<1>1. \A j \in K : n - j \in T
  OBVIOUS
<1>2. T \in SUBSET Nat /\ T # {}
  BY <1>1
<1>3. PICK t \in T : \A u \in T : t <= u
  BY <1>2, LeastExists
<1>4. n - t \in K /\ \A j \in K : j <= n - t
  BY <1>1, <1>3
<1>5. QED
  BY <1>4

-----------------------------------------------------------------------------
(***************************************************************************)
(* Type correctness.                                                        *)
(***************************************************************************)
LEMMA IdTyped == ASSUME NEW f \in Fsm PROVE next_identifier(f) \in Ids
  BY LimitsAssumption DEF Fsm, Ids, next_identifier

LEMMA RequestingTyped ==
    ASSUME NEW f \in Fsm
    PROVE  /\ Requesting(f) \in Fsm
           /\ Requesting(f).state = f.state
           /\ Requesting(f).restart_counter = f.restart_counter
  BY IdTyped DEF Fsm, Requesting

LEMMA IndexedIsSeq ==
    \A S : \A n \in Nat : \A s \in [1..n -> S] : s \in Seq(S)
  OBVIOUS

LEMMA SeqIsIndexed ==
    \A S : \A s \in Seq(S) :
        /\ Len(s) \in Nat /\ DOMAIN s = 1..Len(s)
        /\ \A i \in DOMAIN s : s[i] \in S
  OBVIOUS

LEMMA AfterNakTyped ==
    ASSUME NEW desired \in Seq(Option \cup {NoOption}),
           NEW opts \in Seq(Option)
    PROVE  AfterNak(desired, opts) \in Seq(Option \cup {NoOption})
<1>1. ASSUME NEW type, OfType(opts, type) # {}
      PROVE  opts[LastOf(OfType(opts, type))] \in Option
  <2> DEFINE K == OfType(opts, type)
  <2>1. K \in SUBSET (1..Len(opts)) /\ K # {} /\ Len(opts) \in Nat
    BY <1>1 DEF OfType
  <2>2. \E k \in K : \A j \in K : j <= k
    BY <2>1, GreatestExists
  <2>3. LastOf(K) \in K
    BY <2>2 DEF LastOf
  <2>4. QED
    BY <2>1, <2>3
<1>2. AfterNak(desired, opts) \in [1..Len(desired) -> Option \cup {NoOption}]
  BY <1>1, SeqIsIndexed DEF AfterNak
<1>3. QED
  BY <1>2, IndexedIsSeq, SeqIsIndexed

LEMMA AfterRejectTyped ==
    ASSUME NEW desired \in Seq(Option \cup {NoOption}), NEW opts
    PROVE  AfterReject(desired, opts) \in Seq(Option \cup {NoOption})
<1>1. AfterReject(desired, opts) \in [1..Len(desired) -> Option \cup {NoOption}]
  BY SeqIsIndexed DEF AfterReject
<1>2. QED
  BY <1>1, IndexedIsSeq, SeqIsIndexed

LEMMA TriedTyped ==
    ASSUME NEW f \in Fsm, NEW opts
    PROVE  TriedAfter(f, opts) \in SUBSET Nat
  BY DEF Fsm, TriedAfter, Offered

\* The options of a request we accept parsed, and the table accepts each.
LEMMA AcceptedParse ==
    ASSUME NEW f, NEW frame, frame.opts \in OptionArea, Accepts(f, frame)
    PROVE  /\ frame.opts \in Seq(Option)
           /\ \A p \in DOMAIN frame.opts : is_option_acceptable(f, frame.opts[p])
  BY DEF Accepts, Verdict, OptionArea, Unacceptable

LEMMA ConfigRequestTyped ==
    ASSUME NEW f \in Fsm, NEW frame, frame.opts \in OptionArea
    PROVE  handle_config_request(f, frame).fsm \in Fsm
<1> DEFINE g == [f EXCEPT
            !.tried  = TriedAfter(f, frame.opts),
            !.remote = IF Accepts(f, frame) THEN frame.opts ELSE @,
            !.state  = AfterRequest(@, Accepts(f, frame))]
<1>1. AfterRequest(f.state, Accepts(f, frame)) \in FsmStates
  BY DEF AfterRequest, FsmStates
<1>2. (IF Accepts(f, frame) THEN frame.opts ELSE f.remote) \in Seq(Option)
  BY AcceptedParse DEF Fsm
<1>3. g \in Fsm
  BY <1>1, <1>2, TriedTyped DEF Fsm
<1>4. Requesting(g) \in Fsm
  BY <1>3, RequestingTyped
<1>5. handle_config_request(f, frame).fsm \in {f, g, Requesting(g)}
  BY DEF handle_config_request, Result, Ignore
<1>6. QED
  BY <1>3, <1>4, <1>5

LEMMA ConfigAckTyped ==
    ASSUME NEW f \in Fsm, NEW frame, frame.opts \in OptionArea
    PROVE  handle_config_ack(f, frame).fsm \in Fsm
<1> DEFINE g == [f EXCEPT !.local = finalize_local_options(f, frame),
                          !.restart_counter = 0]
<1>1. finalize_local_options(f, frame) \in Seq(Option)
  BY DEF finalize_local_options, OptionArea, Fsm
<1>2. g \in Fsm
  BY <1>1 DEF Fsm
<1>3. \A s \in FsmStates : [g EXCEPT !.state = s] \in Fsm
  BY <1>2 DEF Fsm
<1>4. CASE frame.id = f.current_request_id /\ f.state = "ReqSent"
  <2>1. handle_config_ack(f, frame) = Result([g EXCEPT !.state = "AckRecvd"], <<>>)
    BY <1>4, Zenon DEF handle_config_ack
  <2>2. QED
    BY <2>1, <1>3 DEF Result, FsmStates
<1>5. CASE frame.id = f.current_request_id /\ f.state = "AckSent"
  <2>1. handle_config_ack(f, frame) = Result([g EXCEPT !.state = "Opened"], <<LayerUp>>)
    BY <1>5 DEF handle_config_ack
  <2>2. QED
    BY <2>1, <1>3 DEF Result, FsmStates
<1>6. CASE frame.id # f.current_request_id \/ f.state \notin {"ReqSent", "AckSent"}
  BY <1>6 DEF handle_config_ack, Result, Ignore
<1>7. QED
  BY <1>4, <1>5, <1>6

LEMMA ConfigNakRejectTyped ==
    ASSUME NEW f \in Fsm, NEW frame, frame.opts \in OptionArea
    PROVE  handle_config_nak_reject(f, frame).fsm \in Fsm
<1> DEFINE g == [f EXCEPT
            !.restart_counter = 0,
            !.desired = update_desired_local_options(@, frame),
            !.state   = IF @ = "AckSent" THEN "AckSent" ELSE "ReqSent"]
<1>1. CASE frame.opts = Malformed
  <2>1. [f EXCEPT !.restart_counter = 0, !.state = "Stopped"] \in Fsm
    BY DEF Fsm, FsmStates
  <2>2. handle_config_nak_reject(f, frame).fsm
            \in {f, [f EXCEPT !.restart_counter = 0, !.state = "Stopped"]}
    BY <1>1 DEF handle_config_nak_reject, Result, Ignore
  <2>3. QED
    BY <2>1, <2>2
<1>2. CASE frame.opts # Malformed
  <2>1. update_desired_local_options(f.desired, frame)
            \in Seq(Option \cup {NoOption})
    BY <1>2, AfterNakTyped, AfterRejectTyped
       DEF update_desired_local_options, OptionArea, Fsm
  <2>2. g \in Fsm
    BY <2>1 DEF Fsm, FsmStates
  <2>3. handle_config_nak_reject(f, frame).fsm \in {f, Requesting(g)}
    BY <1>2 DEF handle_config_nak_reject, Result, Ignore
  <2>4. QED
    BY <2>2, <2>3, RequestingTyped
<1>3. QED
  BY <1>1, <1>2

LEMMA FrameTyped ==
    ASSUME NEW f \in Fsm, NEW frame,
           frame.code \in Codes, frame.opts \in OptionArea
    PROVE  handle_frame(f, frame).fsm \in Fsm
<1>1. handle_terminate_request(f, frame).fsm \in Fsm
  BY DEF handle_terminate_request, Result, Ignore, Fsm, FsmStates
<1>2. handle_terminate_ack(f).fsm \in Fsm
  BY DEF handle_terminate_ack, Result, Ignore, Fsm, FsmStates
<1>3. handle_unknown_code(f).fsm \in Fsm
  BY IdTyped DEF handle_unknown_code, Result, Ignore, Fsm
<1>4. QED
  BY <1>1, <1>2, <1>3, ConfigRequestTyped, ConfigAckTyped, ConfigNakRejectTyped
     DEF handle_frame, Codes

LEMMA OwnerTyped ==
    ASSUME NEW f \in Fsm
    PROVE  /\ handle_up(f).fsm \in Fsm
           /\ handle_open(f).fsm \in Fsm
           /\ handle_close(f).fsm \in Fsm
           /\ handle_timeout(f).fsm \in Fsm
<1>1. handle_up(f).fsm \in Fsm
  BY DEF handle_up, Result, Ignore, Fsm, FsmStates
<1>2. handle_open(f).fsm \in Fsm
  BY RequestingTyped
     DEF handle_open, Result, Ignore, Fsm, FsmStates
<1>3. handle_close(f).fsm \in Fsm
  BY IdTyped DEF handle_close, Result, Ignore, Fsm, FsmStates
<1>4. handle_timeout(f).fsm \in Fsm
  <2>1. CASE f.state \in Negotiating /\ f.restart_counter < RestartLimit
    <3> DEFINE g == Requesting(f)
    <3>1. g \in Fsm /\ g.restart_counter \in Nat
      BY RequestingTyped DEF Fsm
    <3>2. \A n \in Nat, s \in FsmStates :
            [g EXCEPT !.restart_counter = n, !.state = s] \in Fsm
      BY <3>1 DEF Fsm
    <3>3. handle_timeout(f).fsm =
            [g EXCEPT !.restart_counter = g.restart_counter + 1,
                      !.state = IF g.state = "AckSent" THEN "AckSent" ELSE "ReqSent"]
      BY <2>1 DEF handle_timeout, Result
    <3>4. /\ g.restart_counter + 1 \in Nat
          /\ (IF g.state = "AckSent" THEN "AckSent" ELSE "ReqSent") \in FsmStates
      BY <3>1 DEF FsmStates
    <3>5. QED
      BY <3>2, <3>3, <3>4
  <2>2. CASE f.state \in Negotiating /\ ~ (f.restart_counter < RestartLimit)
    <3>1. handle_timeout(f).fsm =
            [f EXCEPT !.restart_counter = f.restart_counter + 1, !.state = "Stopped"]
      BY <2>2 DEF handle_timeout, Result
    <3>2. f.restart_counter + 1 \in Nat
      BY DEF Fsm
    <3>3. \A n \in Nat : [f EXCEPT !.restart_counter = n, !.state = "Stopped"] \in Fsm
      BY DEF Fsm, FsmStates
    <3>4. QED
      BY <3>1, <3>2, <3>3
  <2>3. CASE f.state \notin Negotiating
    BY <2>3 DEF handle_timeout, Result, Ignore
  <2>4. QED
    BY <2>1, <2>2, <2>3
<1>5. QED
  BY <1>1, <1>2, <1>3, <1>4

LEMMA ReplyShape ==
    ASSUME NEW f, NEW frame
    PROVE  /\ Accepts(f, frame) => Reply(f, frame).code = "ConfAck"
           /\ ~ Accepts(f, frame) => Reply(f, frame).code \in {"ConfNak", "ConfRej"}
  BY DEF Accepts, Reply, Verdict, Frame

-----------------------------------------------------------------------------
\* A counter-offer marks a table entry that was not marked before: the first
\* unacceptable option of a type takes the least untried entry of that type.
LEMMA CounterMarks ==
    ASSUME NEW f \in Fsm, NEW opts \in Seq(Option), Verdict(f, opts) = "Counter"
    PROVE  Offered(f, opts) # {}
<1>1. Refused(f, opts) = {} /\ Unacceptable(f, opts) # {}
  BY DEF Verdict
<1>2. PICK p \in DOMAIN opts : p \in Unacceptable(f, opts)
  BY <1>1 DEF Unacceptable
<1> DEFINE type  == opts[p].type
           same  == UnacceptableOfType(f, opts, type)
           free  == Untried(f, type)
           upto  == {m \in same : m <= p}
<1>3. /\ IsFiniteSet(DOMAIN opts) /\ IsFiniteSet(DOMAIN f.acceptable)
      /\ DOMAIN opts \subseteq Nat /\ DOMAIN f.acceptable \subseteq Nat
  <2>1. \A n \in Nat : IsFiniteSet(1..n)
    BY FS_Interval
  <2>2. /\ DOMAIN opts = 1..Len(opts) /\ Len(opts) \in Nat
        /\ DOMAIN f.acceptable = 1..Len(f.acceptable) /\ Len(f.acceptable) \in Nat
    BY SeqIsIndexed DEF Fsm
  <2>3. QED
    BY <2>1, <2>2
<1>4. p \in same /\ same \subseteq DOMAIN opts /\ p \in upto /\ upto \subseteq same
  BY <1>2, <1>3 DEF UnacceptableOfType, Unacceptable
<1>5. free \subseteq DOMAIN f.acceptable \ f.tried
      /\ \A i \in free : f.acceptable[i].type = type
  BY DEF Untried
<1>6. Turn(f, opts, p) = Cardinality(upto)
  BY DEF Turn, Rank
<1>7. /\ p \notin Refused(f, opts)
      /\ ~ (Turn(f, opts, p) > Cardinality(free))
  BY <1>1, <1>2 DEF Refused
<1> HIDE DEF type, same, free, upto
<1>8. /\ IsFiniteSet(same) /\ IsFiniteSet(upto) /\ IsFiniteSet(free)
  BY <1>3, <1>4, <1>5, FS_Subset
<1>9. Cardinality(upto) \in Nat /\ Cardinality(upto) # 0
  BY <1>4, <1>8, FS_CardinalityType, FS_EmptySet
<1>10. Cardinality(same) \in Nat /\ Cardinality(same) # 0
  BY <1>4, <1>8, FS_CardinalityType, FS_EmptySet
<1>11. free # {}
  BY <1>6, <1>7, <1>8, <1>9, FS_CardinalityType, FS_EmptySet
<1>12. PICK i \in free : \A j \in free : i <= j
  BY <1>3, <1>5, <1>11, LeastExists
<1>13. {m \in free : m <= i} = {i}
  BY <1>3, <1>5, <1>12
<1>14. Rank(free, i) = 1
  BY <1>13, FS_Singleton DEF Rank
<1>15. i \in Offered(f, opts)
  BY <1>5, <1>10, <1>12, <1>14 DEF Offered, same, free
<1>16. QED
  BY <1>15

LEMMA TableFinite ==
    ASSUME NEW table \in Seq(TableEntry)
    PROVE  \A T \in SUBSET DOMAIN table :
                IsFiniteSet(T) /\ Cardinality(T) \in Nat /\ Cardinality(T) <= Len(table)
<1>1. DOMAIN table = 1..Len(table) /\ Len(table) \in Nat
  BY SeqIsIndexed
<1>2. /\ IsFiniteSet(1..Len(table))
      /\ Cardinality(1..Len(table)) = Len(table)
  <2>1. \A n \in Nat : /\ IsFiniteSet(1..n)
                       /\ Cardinality(1..n) = IF 1 > n THEN 0 ELSE n - 1 + 1
    BY FS_Interval
  <2>2. \A n \in Nat : (IF 1 > n THEN 0 ELSE n - 1 + 1) = n
    OBVIOUS
  <2>3. QED
    BY <1>1, <2>1, <2>2
<1>3. QED
  BY <1>1, <1>2, FS_Subset, FS_CardinalityType

\* The marks never shrink, and grow with every Config-Nak (when nothing is
\* demanded of the peer's request).
LEMMA MarksGrow ==
    ASSUME NEW f \in Fsm, NEW frame, frame.opts \in OptionArea,
           f.tried \subseteq DOMAIN f.acceptable, f.desired_remote = <<>>
    PROVE  /\ TriedAfter(f, frame.opts) \subseteq DOMAIN f.acceptable
           /\ Cardinality(f.tried) <= Cardinality(TriedAfter(f, frame.opts))
           /\ Reply(f, frame).code = "ConfNak" =>
                Cardinality(f.tried) + 1 <= Cardinality(TriedAfter(f, frame.opts))
<1> DEFINE old   == f.tried
           later == TriedAfter(f, frame.opts)
<1>1. old \subseteq later /\ later \in SUBSET DOMAIN f.acceptable
  BY DEF TriedAfter, Offered
<1>2. /\ IsFiniteSet(later) /\ Cardinality(later) \in Nat
      /\ IsFiniteSet(old) /\ Cardinality(old) \in Nat
  BY <1>1, TableFinite DEF Fsm
<1>3. Cardinality(old) <= Cardinality(later)
  BY <1>1, <1>2, FS_Subset
<1>4. ASSUME Reply(f, frame).code = "ConfNak"
      PROVE  Cardinality(old) + 1 <= Cardinality(later)
  <2>1. Verdict(f, frame.opts) \in {"Missing", "Counter"}
    BY <1>4 DEF Reply, Verdict, Frame
  <2>2. Missing(f, frame.opts) = {}
    BY DEF Missing
  <2>3. Verdict(f, frame.opts) = "Counter"
    BY <2>1, <2>2 DEF Verdict
  <2>4. frame.opts \in Seq(Option)
    BY <2>3 DEF Verdict, OptionArea
  <2>5. Offered(f, frame.opts) # {}
    BY <2>3, <2>4, CounterMarks
  <2>6. later = old \cup Offered(f, frame.opts)
    BY <2>3 DEF TriedAfter
  <2>7. later # old
    BY <2>5, <2>6 DEF Offered
  <2>8. Cardinality(old) # Cardinality(later)
    BY <1>1, <1>2, <2>7, FS_Subset
  <2>9. QED
    BY <1>2, <1>3, <2>8
<1>5. QED
  BY <1>1, <1>3, <1>4
=============================================================================
