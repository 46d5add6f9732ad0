------------------------ MODULE TradeExecutionProofs ------------------------
(***************************************************************************)
(* Proofs about the trade_execution program for every set of keys, trade   *)
(* ids, prices, policies and owner vectors.  IInv strengthens the checked  *)
(* invariants with what ties a record to its multisig.                     *)
(***************************************************************************)
EXTENDS TradeExecution, FiniteSetTheorems, TLAPS

\* The multisigs initialize_multisig lets through.
MultisigsSound ==
  \A a \in Authority :
    IsMultisig(a) =>
      /\ UniqueOwners(multisig[a].owners)
      /\ multisig[a].threshold \in 1..Len(multisig[a].owners)
      /\ Len(multisig[a].owners) <= MaxOwners

\* A record belongs to the multisig of its address, holds each approving owner
\* once, and its status says whether the threshold is reached.
RecordSound(t, r, ms) ==
  /\ r.multisig = t[1]
  /\ IsInjective(r.approvals)
  /\ Range(r.approvals) \subseteq Range(ms.owners)
  /\ r.status = "Pending" => Len(r.approvals) < ms.threshold
  /\ r.status \in {"Approved", "Executed"} => Len(r.approvals) >= ms.threshold

ApprovalsSound ==
  \A t \in Address :
    IsTrade(t) =>
      /\ IsMultisig(trade[t].multisig)
      /\ RecordSound(t, trade[t], multisig[trade[t].multisig])

IInv == TypeOK /\ MultisigsSound /\ ApprovalsSound

-----------------------------------------------------------------------------
(* Sequences without repetition *)

\* A sequence that never repeats an element has as many elements as entries.
LEMMA RangeCardinality ==
  ASSUME NEW S, NEW s \in Seq(S), IsInjective(s)
  PROVE  IsFiniteSet(Range(s)) /\ Cardinality(Range(s)) = Len(s)
<1>1. Len(s) \in Nat /\ DOMAIN s = 1..Len(s) /\ s \in [1..Len(s) -> S]
  OBVIOUS
<1>2. s \in [1..Len(s) -> Range(s)]
  BY <1>1 DEF Range
<1>3. s \in Bijection(1..Len(s), Range(s))
  BY <1>1, <1>2 DEF Bijection, Injection, Surjection, IsInjective, Range
<1>4. ExistsBijection(1..Len(s), Range(s))
  BY <1>3 DEF ExistsBijection
<1> QED
  BY <1>1, <1>4, FS_CountingElements, FS_NatBijection

\* The contains / push of approve_trade keeps the vector free of repetitions,
\* adds the owner and loses nobody.
LEMMA WithApprovalSound ==
  ASSUME NEW S, NEW s \in Seq(S), IsInjective(s), NEW o \in S
  PROVE  /\ WithApproval(s, o) \in Seq(S)
         /\ IsInjective(WithApproval(s, o))
         /\ Range(WithApproval(s, o)) = Range(s) \cup {o}
         /\ Len(WithApproval(s, o)) \in {Len(s), Len(s) + 1}
<1>1. CASE o \in Range(s)
  BY <1>1 DEF WithApproval
<1>2. CASE o \notin Range(s)
  <2> DEFINE w == Append(s, o)
  <2>1. /\ w \in Seq(S) /\ Len(w) = Len(s) + 1 /\ Len(s) \in Nat
        /\ DOMAIN w = 1..(Len(s) + 1) /\ DOMAIN s = 1..Len(s)
        /\ \A i \in 1..Len(s) : w[i] = s[i]
        /\ w[Len(s) + 1] = o
    OBVIOUS
  <2>2. Range(w) = Range(s) \cup {o}
    <3>1. ASSUME NEW x \in Range(w) PROVE x \in Range(s) \cup {o}
      BY <2>1, <3>1 DEF Range
    <3>2. ASSUME NEW x \in Range(s) PROVE x \in Range(w)
      BY <2>1, <3>2 DEF Range
    <3>3. o \in Range(w)
      BY <2>1 DEF Range
    <3> QED
      BY <3>1, <3>2, <3>3
  <2>3. IsInjective(w)
    <3> SUFFICES ASSUME NEW a \in DOMAIN w, NEW b \in DOMAIN w, w[a] = w[b]
                 PROVE  a = b
      BY DEF IsInjective
    <3>1. ASSUME NEW i \in 1..Len(s) PROVE w[i] # o
      BY <1>2, <2>1, <3>1 DEF Range
    <3> QED
      BY <2>1, <3>1 DEF IsInjective
  <2> QED
    BY <1>2, <2>1, <2>2, <2>3 DEF WithApproval
<1> QED
  BY <1>1, <1>2

-----------------------------------------------------------------------------
(* IInv is inductive *)

\* Creating a multisig touches no other account; no record points at an address
\* that held none.
LEMMA InitializeIInv ==
  ASSUME IInv, NEW a \in Authority, NEW owners \in OwnerLists, NEW n \in Int,
         initialize_multisig(a, owners, n)
  PROVE  IInv'
<1> USE KeyAssumption, OwnersAssumption, NumberAssumption, NoAccountAssumption
<1> DEFINE ms == [owners |-> owners, threshold |-> n, max_slippage_bps |-> 100,
                  max_oracle_deviation_bps |-> 150, allowed_dex |-> all_mask,
                  trade_count |-> 0]
<1>1. owners \in Seq(Key \cup {DefaultKey}) /\ n \in 1..Len(owners) /\ n \in Nat
  BY DEF initialize_multisig
<1>2. ms \in MultisigConfig
  BY <1>1 DEF MultisigConfig, all_mask, MaskBit
<1>3. /\ multisig' = [multisig EXCEPT ![a] = ms] /\ UNCHANGED trade
      /\ multisig[a] = NoAccount /\ UniqueOwners(owners) /\ Len(owners) <= MaxOwners
  BY DEF initialize_multisig, IsMultisig
<1>4. TypeOK'
  BY <1>2, <1>3 DEF IInv, TypeOK, IsTrade
<1>5. MultisigsSound'
  BY <1>1, <1>2, <1>3 DEF IInv, TypeOK, MultisigsSound, IsMultisig
<1>6. ApprovalsSound'
  <2> SUFFICES ASSUME NEW t \in Address, IsTrade(t)
               PROVE  /\ IsMultisig(trade[t].multisig)
                      /\ trade[t].multisig \in Authority
                      /\ multisig'[trade[t].multisig] = multisig[trade[t].multisig]
    BY <1>3, <1>2 DEF IInv, TypeOK, ApprovalsSound, IsTrade, IsMultisig
  <2> QED
    BY <1>3 DEF IInv, TypeOK, ApprovalsSound, IsTrade, IsMultisig, TradeRecord
<1> QED
  BY <1>4, <1>5, <1>6 DEF IInv

\* A step that changes a multisig keeps the owners and the threshold, so it
\* keeps every record's standing.
LEMMA PolicyIInv ==
  ASSUME IInv, NEW a \in Authority, NEW sl \in Bps, NEW dv \in Bps, NEW mask \in Mask,
         update_policy(a, sl, dv, mask)
  PROVE  IInv'
<1> USE NumberAssumption, InputAssumption, NoAccountAssumption
<1> DEFINE ms == [multisig[a] EXCEPT !.max_slippage_bps = sl,
                                     !.max_oracle_deviation_bps = dv,
                                     !.allowed_dex = mask]
<1>1. multisig[a] \in MultisigConfig
  BY DEF update_policy, IInv, TypeOK, IsMultisig
<1>2. /\ ms \in MultisigConfig
      /\ ms.owners = multisig[a].owners /\ ms.threshold = multisig[a].threshold
  BY <1>1 DEF MultisigConfig
<1>3. multisig' = [multisig EXCEPT ![a] = ms] /\ UNCHANGED trade /\ IsMultisig(a)
  BY <1>1 DEF update_policy, IInv, TypeOK
<1>4. TypeOK'
  BY <1>2, <1>3 DEF IInv, TypeOK, IsTrade
<1>5. MultisigsSound'
  BY <1>2, <1>3 DEF IInv, TypeOK, MultisigsSound, IsMultisig
<1>6. ApprovalsSound'
  BY <1>2, <1>3 DEF IInv, TypeOK, ApprovalsSound, RecordSound, IsTrade, IsMultisig,
                    TradeRecord
<1> QED
  BY <1>4, <1>5, <1>6 DEF IInv

\* open_trade writes a well-formed pending record without approvals.
LEMMA OpenedRecord ==
  ASSUME IInv, NEW m \in Authority, NEW id \in TradeId, NEW p \in TradeParams,
         open_trade(m, id, p)
  PROVE  \E r \in TradeRecord :
           /\ trade' = [trade EXCEPT ![<<m, id>>] = r]
           /\ r.multisig = m /\ r.status = "Pending" /\ r.approvals = << >>
<1> DEFINE r == [multisig |-> m, status |-> "Pending", dex |-> p.dex,
                 mints |-> p.mints, route |-> p.route, amount_in |-> p.amount_in, min_out |-> p.min_out,
                 oracle_price |-> p.oracle_price,
                 max_slippage_bps |-> p.max_slippage_bps, approvals |-> << >>,
                 history_index |-> NextHistoryIndex(m), output_amount |-> 0,
                 execution_price |-> 0]
<1>1. multisig[m] \in MultisigConfig
  BY DEF open_trade, IInv, TypeOK, IsMultisig
<1>2. r \in TradeRecord
  BY <1>1, InputAssumption DEF TradeRecord, Params, TradeStatus, NextHistoryIndex,
                               MultisigConfig
<1>3. trade' = [trade EXCEPT ![<<m, id>>] = r]
  BY DEF open_trade
<1> QED
  BY <1>2, <1>3

LEMMA OpenIInv ==
  ASSUME IInv, NEW m \in Authority, NEW id \in TradeId, NEW p \in TradeParams,
         open_trade(m, id, p)
  PROVE  IInv'
<1> USE NumberAssumption, InputAssumption, NoAccountAssumption, OwnersAssumption
<1> DEFINE ms == [multisig[m] EXCEPT !.trade_count = NextTradeCount(m)]
           t0 == <<m, id>>
<1>1. multisig[m] \in MultisigConfig /\ t0 \in Address
  BY DEF open_trade, IInv, TypeOK, IsMultisig, Address
<1>2. /\ ms \in MultisigConfig
      /\ ms.owners = multisig[m].owners /\ ms.threshold = multisig[m].threshold
  BY <1>1 DEF MultisigConfig, NextTradeCount
<1>3. PICK r \in TradeRecord :
        /\ trade' = [trade EXCEPT ![t0] = r]
        /\ r.multisig = m /\ r.status = "Pending" /\ r.approvals = << >>
  BY OpenedRecord
<1>4. /\ multisig' = [multisig EXCEPT ![m] = ms]
      /\ IsMultisig(m) /\ trade[t0] = NoAccount
  BY <1>1 DEF open_trade, IInv, TypeOK, IsTrade
<1>5. TypeOK'
  BY <1>1, <1>2, <1>3, <1>4 DEF IInv, TypeOK, IsTrade
<1>6. MultisigsSound'
  BY <1>2, <1>4 DEF IInv, TypeOK, MultisigsSound, IsMultisig
<1>7. ApprovalsSound'
  <2> SUFFICES ASSUME NEW t \in Address, IsTrade(t)'
               PROVE  /\ IsMultisig(trade[t].multisig)'
                      /\ RecordSound(t, trade'[t], multisig'[trade'[t].multisig])
    BY DEF ApprovalsSound
  <2>1. CASE t = t0
    <3>1. trade'[t] = r /\ multisig'[m] = ms /\ t[1] = m
      BY <1>1, <1>3, <1>4, <2>1 DEF IInv, TypeOK
    <3>2. IsInjective(r.approvals) /\ Range(r.approvals) = {} /\ Len(r.approvals) = 0
      BY <1>3 DEF IsInjective, Range
    <3>3. ms.threshold > 0
      BY <1>2, <1>4 DEF IInv, MultisigsSound
    <3> QED
      BY <3>1, <3>2, <3>3, <1>2, <1>3, <1>4 DEF IsMultisig, RecordSound
  <2>2. CASE t # t0
    <3>1. trade'[t] = trade[t] /\ IsTrade(t)
      BY <1>3, <1>4, <2>2 DEF IInv, TypeOK, IsTrade
    <3>2. trade[t].multisig \in Authority
      BY <3>1 DEF IInv, TypeOK, IsTrade, TradeRecord
    <3>3. /\ IsMultisig(trade[t].multisig)
          /\ RecordSound(t, trade[t], multisig[trade[t].multisig])
      BY <3>1 DEF IInv, ApprovalsSound
    <3> HIDE DEF ms
    <3>4. /\ IsMultisig(trade[t].multisig)'
          /\ multisig'[trade[t].multisig].owners = multisig[trade[t].multisig].owners
          /\ multisig'[trade[t].multisig].threshold = multisig[trade[t].multisig].threshold
      BY <3>1, <3>2, <3>3, <1>2, <1>4 DEF IInv, TypeOK, IsMultisig
    <3> QED
      BY <3>1, <3>3, <3>4 DEF RecordSound, IsMultisig
  <2> QED
    BY <2>1, <2>2
<1> QED
  BY <1>5, <1>6, <1>7 DEF IInv

LEMMA ApproveIInv ==
  ASSUME IInv, NEW m \in Authority, NEW t0 \in Address, NEW owner \in Key,
         approve_trade(m, t0, owner)
  PROVE  IInv'
<1> USE NumberAssumption, NoAccountAssumption, OwnersAssumption
<1> DEFINE w == WithApproval(trade[t0].approvals, owner)
           status == IF Len(w) >= multisig[m].threshold
                     THEN "Approved" ELSE trade[t0].status
           r == [trade[t0] EXCEPT !.approvals = w, !.status = status]
<1>1. /\ trade[t0] \in TradeRecord /\ IsTrade(t0) /\ IsMultisig(m)
      /\ trade[t0].multisig = m /\ owner \in Range(multisig[m].owners)
      /\ Len(trade[t0].approvals) < MaxOwners
      /\ trade[t0].status \in {"Pending", "Approved"}
  BY DEF approve_trade, IsOpen, IsTrade, IInv, TypeOK
<1>2. /\ trade[t0].approvals \in Seq(Key)
      /\ IsInjective(trade[t0].approvals)
      /\ Range(trade[t0].approvals) \subseteq Range(multisig[m].owners)
      /\ t0[1] = m
  BY <1>1 DEF IInv, ApprovalsSound, RecordSound, TradeRecord
<1>3. /\ w \in Seq(Key) /\ IsInjective(w)
      /\ Range(w) = Range(trade[t0].approvals) \cup {owner}
      /\ Len(w) \in {Len(trade[t0].approvals), Len(trade[t0].approvals) + 1}
  <2>1. \A s \in Seq(Key), o \in Key :
          IsInjective(s) => /\ WithApproval(s, o) \in Seq(Key)
                            /\ IsInjective(WithApproval(s, o))
                            /\ Range(WithApproval(s, o)) = Range(s) \cup {o}
                            /\ Len(WithApproval(s, o)) \in {Len(s), Len(s) + 1}
    BY WithApprovalSound
  <2> QED
    BY <1>2, <2>1
<1>4. /\ Len(w) \in Nat /\ Len(w) <= MaxOwners
      /\ Len(w) >= Len(trade[t0].approvals)
  BY <1>1, <1>2, <1>3
<1>5. /\ r \in TradeRecord /\ r.approvals = w /\ r.status = status
      /\ r.multisig = m
  BY <1>1, <1>3 DEF TradeRecord, TradeStatus
<1>6. trade' = [trade EXCEPT ![t0] = r] /\ UNCHANGED multisig
  BY <1>1 DEF approve_trade, IInv, TypeOK
<1>7. TypeOK'
  BY <1>4, <1>5, <1>6 DEF IInv, TypeOK, IsTrade
<1>8. MultisigsSound'
  BY <1>6 DEF IInv, MultisigsSound, IsMultisig
<1>9. multisig[m].threshold \in Nat
  BY <1>1 DEF IInv, TypeOK, IsMultisig, MultisigConfig
<1>10. ApprovalsSound'
  <2> SUFFICES ASSUME NEW t \in Address, IsTrade(t)'
               PROVE  /\ IsMultisig(trade[t].multisig)'
                      /\ RecordSound(t, trade'[t], multisig'[trade'[t].multisig])
    BY DEF ApprovalsSound
  <2>1. CASE t = t0
    <3>1. trade'[t] = r /\ multisig' = multisig
      BY <1>6, <2>1 DEF IInv, TypeOK
    <3>2. /\ r.status = "Pending" => Len(w) < multisig[m].threshold
          /\ r.status \in {"Approved", "Executed"} => Len(w) >= multisig[m].threshold
      <4>1. trade[t0].status = "Approved" =>
              Len(trade[t0].approvals) >= multisig[m].threshold
        BY <1>1 DEF IInv, ApprovalsSound, RecordSound
      <4> QED
        BY <4>1, <1>1, <1>2, <1>4, <1>5, <1>9
    <3> QED
      BY <3>1, <3>2, <1>1, <1>2, <1>3, <1>5, <2>1 DEF IsMultisig, RecordSound
  <2>2. CASE t # t0
    BY <1>6, <2>2 DEF IInv, TypeOK, ApprovalsSound, IsTrade, IsMultisig
  <2> QED
    BY <2>1, <2>2
<1> QED
  BY <1>7, <1>8, <1>10 DEF IInv

\* Deciding a record keeps its approvals; Executed asks for what Approved held.
LEMMA DecideIInv ==
  ASSUME IInv, NEW t0 \in Address, IsOpen(t0), NEW r \in TradeRecord,
         r.multisig = trade[t0].multisig, r.approvals = trade[t0].approvals,
         \/ r.status = "Cancelled"
         \/ r.status = "Executed" /\ trade[t0].status = "Approved",
         trade' = [trade EXCEPT ![t0] = r], UNCHANGED multisig
  PROVE  IInv'
<1> USE NoAccountAssumption
<1>1. TypeOK'
  BY DEF IInv, TypeOK, IsTrade, IsOpen
<1>2. MultisigsSound'
  BY DEF IInv, MultisigsSound, IsMultisig
<1>3. ApprovalsSound'
  <2> SUFFICES ASSUME NEW t \in Address, IsTrade(t)'
               PROVE  /\ IsMultisig(trade'[t].multisig)
                      /\ RecordSound(t, trade'[t], multisig[trade'[t].multisig])
    BY DEF ApprovalsSound, IsMultisig
  <2>1. CASE t = t0
    <3>1. trade'[t] = r /\ IsTrade(t)
      BY <2>1 DEF IInv, TypeOK, IsOpen
    <3> QED
      BY <3>1, <2>1 DEF IInv, ApprovalsSound, RecordSound
  <2>2. CASE t # t0
    BY <2>2 DEF IInv, TypeOK, ApprovalsSound, IsTrade
  <2> QED
    BY <2>1, <2>2
<1> QED
  BY <1>1, <1>2, <1>3 DEF IInv

LEMMA ExecuteIInv ==
  ASSUME IInv, NEW m \in Authority, NEW t0 \in Address, NEW rep \in ExecutionReports,
         execute_trade(m, t0, rep)
  PROVE  IInv'
<1> DEFINE r == [trade[t0] EXCEPT !.status = "Executed",
                                  !.output_amount = rep.output_amount,
                                  !.execution_price = rep.execution_price]
<1>1. trade[t0] \in TradeRecord /\ IsOpen(t0) /\ trade[t0].status = "Approved"
  BY DEF execute_trade, IsOpen, IsTrade, IInv, TypeOK
<1>2. /\ r \in TradeRecord /\ r.status = "Executed"
      /\ r.multisig = trade[t0].multisig /\ r.approvals = trade[t0].approvals
  BY <1>1, InputAssumption DEF TradeRecord, TradeStatus, ExecutionReport
<1>3. trade' = [trade EXCEPT ![t0] = r] /\ UNCHANGED multisig
  BY <1>1 DEF execute_trade, IInv, TypeOK
<1> QED
  BY <1>1, <1>2, <1>3, DecideIInv

LEMMA CancelIInv ==
  ASSUME IInv, NEW a \in Authority, NEW t0 \in Address, cancel_trade(a, t0)
  PROVE  IInv'
<1> DEFINE r == [trade[t0] EXCEPT !.status = "Cancelled"]
<1>1. trade[t0] \in TradeRecord /\ IsOpen(t0)
  BY DEF cancel_trade, IsOpen, IsTrade, IInv, TypeOK
<1>2. /\ r \in TradeRecord /\ r.status = "Cancelled"
      /\ r.multisig = trade[t0].multisig /\ r.approvals = trade[t0].approvals
  BY <1>1 DEF TradeRecord, TradeStatus
<1>3. trade' = [trade EXCEPT ![t0] = r] /\ UNCHANGED multisig
  BY <1>1 DEF cancel_trade, IInv, TypeOK
<1> QED
  BY <1>1, <1>2, <1>3, DecideIInv

\* IInv holds in every state the program can reach.
THEOREM Inductive == Spec => []IInv
<1>1. Init => IInv
  BY DEF Init, IInv, TypeOK, MultisigsSound, ApprovalsSound, IsMultisig, IsTrade
<1>2. IInv /\ [Next]_vars => IInv'
  <2> SUFFICES ASSUME IInv, [Next]_vars PROVE IInv'
    OBVIOUS
  <2>1. ASSUME NEW a \in Authority, NEW owners \in OwnerLists,
               NEW n \in 0..(MaxOwners + 1), initialize_multisig(a, owners, n)
        PROVE  IInv'
    BY <2>1, InitializeIInv, OwnersAssumption
  <2>2. ASSUME NEW a \in Authority, NEW sl \in Bps, NEW dv \in Bps, NEW mask \in Mask,
               update_policy(a, sl, dv, mask)
        PROVE  IInv'
    BY <2>2, PolicyIInv
  <2>3. ASSUME NEW m \in Authority, NEW id \in TradeId, NEW p \in TradeParams,
               open_trade(m, id, p)
        PROVE  IInv'
    BY <2>3, OpenIInv
  <2>4. ASSUME NEW m \in Authority, NEW t \in Address, NEW owner \in Key,
               approve_trade(m, t, owner)
        PROVE  IInv'
    BY <2>4, ApproveIInv
  <2>5. ASSUME NEW m \in Authority, NEW t \in Address, NEW rep \in ExecutionReports,
               execute_trade(m, t, rep)
        PROVE  IInv'
    BY <2>5, ExecuteIInv
  <2>6. ASSUME NEW a \in Authority, NEW t \in Address, cancel_trade(a, t)
        PROVE  IInv'
    BY <2>6, CancelIInv
  <2>7. CASE UNCHANGED vars
    BY <2>7 DEF vars, IInv, TypeOK, MultisigsSound, ApprovalsSound, IsMultisig, IsTrade
  <2> QED
    BY <2>1, <2>2, <2>3, <2>4, <2>5, <2>6, <2>7 DEF Next
<1> QED
  BY <1>1, <1>2, PTL DEF Spec

\* Accounts always hold values of their layout.
THEOREM TypeCorrect == Spec => []TypeOK
<1>1. IInv => TypeOK
  BY DEF IInv
<1> QED
  BY <1>1, Inductive, PTL

-----------------------------------------------------------------------------
(* The quorum *)

\* In every reachable state an executed trade has the approvals of `threshold`
\* different owners of its multisig.
THEOREM QuorumSafety == Spec => []ExecutedByQuorum
<1>1. IInv => ExecutedByQuorum
  <2> SUFFICES ASSUME IInv, NEW t \in Address, IsTrade(t), trade[t].status = "Executed"
               PROVE  LET m == trade[t].multisig
                          voters == Range(trade[t].approvals) \cap Range(multisig[m].owners)
                      IN  Cardinality(voters) >= multisig[m].threshold
    BY DEF ExecutedByQuorum
  <2> DEFINE ms == multisig[trade[t].multisig]
             approvals == trade[t].approvals
  <2>1. /\ approvals \in Seq(Key) /\ IsInjective(approvals)
        /\ Range(approvals) \subseteq Range(ms.owners)
        /\ Len(approvals) >= ms.threshold
    BY DEF IInv, TypeOK, ApprovalsSound, RecordSound, IsTrade, TradeRecord
  <2>2. Cardinality(Range(approvals)) = Len(approvals)
    <3> HIDE DEF approvals
    <3> QED BY <2>1, RangeCardinality
  <2>3. Range(approvals) \cap Range(ms.owners) = Range(approvals)
    BY <2>1
  <2> QED
    BY <2>1, <2>2, <2>3
<1> QED
  BY <1>1, Inductive, PTL

\* In every reachable state a pending trade has an owner whose approval the
\* program would still count.
THEOREM QuorumReachable == Spec => []PendingCanReachQuorum
<1>1. IInv => PendingCanReachQuorum
  <2> SUFFICES ASSUME IInv, NEW t \in Address, IsTrade(t), trade[t].status = "Pending"
               PROVE  \E owner \in Range(multisig[trade[t].multisig].owners) :
                        /\ owner \notin Range(trade[t].approvals)
                        /\ Len(trade[t].approvals) < MaxOwners
    BY DEF PendingCanReachQuorum
  <2> DEFINE ms == multisig[trade[t].multisig]
             approvals == trade[t].approvals
             owners == ms.owners
  <2>1. /\ approvals \in Seq(Key) /\ IsInjective(approvals)
        /\ Range(approvals) \subseteq Range(owners)
        /\ Len(approvals) < ms.threshold
        /\ trade[t].multisig \in Authority /\ IsMultisig(trade[t].multisig)
    BY DEF IInv, TypeOK, ApprovalsSound, RecordSound, IsTrade, TradeRecord
  <2>2. /\ owners \in Seq(Key \cup {DefaultKey}) /\ IsInjective(owners)
        /\ ms.threshold \in 1..Len(owners) /\ Len(owners) <= MaxOwners
    BY <2>1, OwnersAssumption
       DEF IInv, TypeOK, MultisigsSound, UniqueOwners, IsMultisig, MultisigConfig
  <2> HIDE DEF approvals, owners, ms
  <2>3. Len(approvals) < Len(owners) /\ Len(approvals) < MaxOwners
    <3>1. /\ Len(approvals) \in Nat /\ Len(owners) \in Nat
          /\ ms.threshold \in Nat /\ MaxOwners \in Nat
      BY <2>1, <2>2, OwnersAssumption
    <3> QED
      BY <2>1, <2>2, <3>1
  <2>4. /\ Cardinality(Range(approvals)) = Len(approvals)
        /\ Cardinality(Range(owners)) = Len(owners)
    BY <2>1, <2>2, RangeCardinality
  <2>5. Range(approvals) # Range(owners)
    BY <2>3, <2>4, <2>1, <2>2
  <2>6. PICK owner \in Range(owners) : owner \notin Range(approvals)
    BY <2>1, <2>5
  <2> QED
    BY <2>3, <2>6 DEF approvals, owners, ms
<1> QED
  BY <1>1, Inductive, PTL

-----------------------------------------------------------------------------
(* The price bound *)

\* update_policy keeps the deviation limit under its cap, and open_trade
\* records positive amounts and prices: what the bound of an execution rests on.
PolicyCapped ==
  \A a \in Authority :
    IsMultisig(a) => multisig[a].max_oracle_deviation_bps <= PolicyCap

ProposalsPositive ==
  \A t \in Address : IsTrade(t) => trade[t].min_out > 0

PInv == PolicyCapped /\ ProposalsPositive /\ ExecutedNearOracle

\* The check of verify_price_deviation, whose division truncates, bounds the
\* exact deviation by one basis point more than the limit, exclusive.
LEMMA DeviationBound ==
  ASSUME NEW o \in Int, NEW e \in Int, NEW limit \in Nat, limit <= PolicyCap,
         PriceDeviationOK(o, e, limit)
  PROVE  Distance(o, e) * 10000 < (PolicyCap + 1) * o
<1> DEFINE n == Distance(o, e) * 10000
           q == n \div o
<1>1. o \in Nat \ {0} /\ n \in Nat /\ q <= limit
  BY DEF PriceDeviationOK, Distance
<1> HIDE DEF n
<1>2. q \in Nat /\ n = (o * q) + (n % o) /\ n % o \in 0..(o - 1)
  <2>1. q \in Nat
    BY <1>1
  <2>2. n = (o * q) + (n % o)
    BY <1>1
  <2>3. n % o \in 0..(o - 1)
    BY <1>1
  <2> QED
    BY <2>1, <2>2, <2>3
<1> HIDE DEF q
<1>3. q + 1 \in Nat /\ q + 1 <= PolicyCap + 1 /\ PolicyCap + 1 \in Nat
  BY <1>1, <1>2 DEF PolicyCap
<1>4. (q + 1) * o <= (PolicyCap + 1) * o
  BY <1>1, <1>3
<1>5. (q + 1) * o = (o * q) + o
  BY <1>1, <1>2
<1>6. n < (q + 1) * o
  BY <1>1, <1>2, <1>5
<1>7. (q + 1) * o \in Int /\ (PolicyCap + 1) * o \in Int
  BY <1>1, <1>2 DEF PolicyCap
<1>8. n < (PolicyCap + 1) * o
  BY <1>1, <1>4, <1>6, <1>7
<1> QED
  BY <1>8 DEF n

\* In every reachable state an executed price is within the policy cap of the
\* recorded oracle price and the output covers the recorded minimum.
THEOREM PriceSafety == Spec => []ExecutedNearOracle
<1> USE NumberAssumption, InputAssumption, NoAccountAssumption
<1>1. Init => PInv
  BY DEF Init, PInv, PolicyCapped, ProposalsPositive, ExecutedNearOracle, IsMultisig,
         IsTrade
<1>2. IInv /\ PInv /\ [Next]_vars => PInv'
  <2> SUFFICES ASSUME IInv, PInv, [Next]_vars PROVE PInv'
    OBVIOUS
  <2> USE DEF PInv, PolicyCapped, ProposalsPositive, ExecutedNearOracle, IsMultisig,
              IsTrade
  <2>1. ASSUME NEW a \in Authority, NEW owners \in OwnerLists, NEW n \in Int,
               initialize_multisig(a, owners, n)
        PROVE  PInv'
    BY <2>1 DEF initialize_multisig, IInv, TypeOK, PolicyCap
  <2>2. ASSUME NEW a \in Authority, NEW sl \in Bps, NEW dv \in Bps, NEW mask \in Mask,
               update_policy(a, sl, dv, mask)
        PROVE  PInv'
    BY <2>2 DEF update_policy, IInv, TypeOK, MultisigConfig, PolicyCap
  <2>3. ASSUME NEW m \in Authority, NEW id \in TradeId, NEW p \in TradeParams,
               open_trade(m, id, p)
        PROVE  PInv'
    BY <2>3 DEF open_trade, IInv, TypeOK, MultisigConfig
  <2>4. ASSUME NEW m \in Authority, NEW t \in Address, NEW owner \in Key,
               approve_trade(m, t, owner)
        PROVE  PInv'
    BY <2>4 DEF approve_trade, IsOpen, IInv, TypeOK, TradeRecord
  <2>5. ASSUME NEW m \in Authority, NEW t0 \in Address, NEW rep \in ExecutionReports,
               execute_trade(m, t0, rep)
        PROVE  PInv'
    <3>1. /\ trade[t0] \in TradeRecord /\ multisig[m] \in MultisigConfig
          /\ rep \in ExecutionReport
      BY <2>5 DEF execute_trade, IInv, TypeOK
    <3>2. Distance(trade[t0].oracle_price, rep.execution_price) * 10000
            < (PolicyCap + 1) * trade[t0].oracle_price
      <4> DEFINE o == trade[t0].oracle_price
                 e == rep.execution_price
                 limit == multisig[m].max_oracle_deviation_bps
      <4>1. o \in Price /\ e \in Price
        BY <3>1 DEF TradeRecord, ExecutionReport
      <4>2. limit \in Nat /\ limit <= PolicyCap
        BY <2>5, <3>1 DEF execute_trade, MultisigConfig
      <4>3. PriceDeviationOK(o, e, limit)
        BY <2>5 DEF execute_trade
      <4> HIDE DEF o, e, limit
      <4>4. Distance(o, e) * 10000 < (PolicyCap + 1) * o
        BY <4>1, <4>2, <4>3, DeviationBound, NumberAssumption
      <4> QED
        BY <4>4 DEF o, e
    <3> QED
      BY <2>5, <3>1, <3>2 DEF execute_trade, IInv, TypeOK, TradeRecord
  <2>6. ASSUME NEW a \in Authority, NEW t \in Address, cancel_trade(a, t)
        PROVE  PInv'
    BY <2>6 DEF cancel_trade, IsOpen, IInv, TypeOK, TradeRecord
  <2>7. CASE UNCHANGED vars
    BY <2>7 DEF vars
  <2> QED
    BY <2>1, <2>2, <2>3, <2>4, <2>5, <2>6, <2>7, OwnersAssumption DEF Next
<1>3. PInv => ExecutedNearOracle
  BY DEF PInv
<1> QED
  BY <1>1, <1>2, <1>3, Inductive, PTL DEF Spec

-----------------------------------------------------------------------------
(* History *)

\* What a step may do to one record.
RecordStep(r, q) ==
  /\ Proposal(q) = Proposal(r)
  /\ Range(r.approvals) \subseteq Range(q.approvals)
  /\ r.status \in {"Executed", "Cancelled"} => q = r

\* A step keeps every record there is.
LEMMA RecordsKept ==
  ASSUME IInv, [Next]_vars
  PROVE  \A t \in Address :
           IsTrade(t) => IsTrade(t)' /\ RecordStep(trade[t], trade'[t])
<1> SUFFICES ASSUME NEW t \in Address, IsTrade(t)
             PROVE  IsTrade(t)' /\ RecordStep(trade[t], trade'[t])
  OBVIOUS
<1> USE NoAccountAssumption
<1>0. trade[t] \in TradeRecord
  BY DEF IInv, TypeOK, IsTrade
<1>1. CASE UNCHANGED trade
  BY <1>1 DEF IsTrade, RecordStep
<1>2. ASSUME NEW m \in Authority, NEW id \in TradeId, NEW p \in TradeParams,
             open_trade(m, id, p)
      PROVE  IsTrade(t)' /\ RecordStep(trade[t], trade'[t])
  <2>1. trade'[t] = trade[t]
    BY <1>2 DEF open_trade, IInv, TypeOK, IsTrade, Address
  <2> QED
    BY <2>1 DEF IsTrade, RecordStep
<1>3. ASSUME NEW m \in Authority, NEW t0 \in Address, NEW owner \in Key,
             approve_trade(m, t0, owner)
      PROVE  IsTrade(t)' /\ RecordStep(trade[t], trade'[t])
  <2>1. CASE t = t0
    <3> DEFINE w == WithApproval(trade[t].approvals, owner)
    <3>1. /\ trade[t].approvals \in Seq(Key) /\ IsInjective(trade[t].approvals)
          /\ trade[t].status \in {"Pending", "Approved"}
      BY <1>3, <1>0, <2>1
         DEF approve_trade, IsOpen, IInv, ApprovalsSound, RecordSound, TradeRecord
    <3>2. \A s \in Seq(Key), o \in Key :
            IsInjective(s) => /\ Range(WithApproval(s, o)) = Range(s) \cup {o}
                              /\ WithApproval(s, o) \in Seq(Key)
      BY WithApprovalSound
    <3>3. Range(trade[t].approvals) \subseteq Range(w) /\ w \in Seq(Key)
      BY <3>1, <3>2
    <3>4. PICK st \in TradeStatus :
            trade'[t] = [trade[t] EXCEPT !.approvals = w, !.status = st]
      BY <1>0, <1>3, <2>1 DEF approve_trade, TypeOK, IInv, TradeRecord, TradeStatus
    <3> HIDE DEF w
    <3>5. Proposal(trade'[t]) = Proposal(trade[t]) /\ trade'[t].approvals = w
      BY <3>4, <1>0 DEF Proposal, TradeRecord
    <3>6. trade'[t] \in TradeRecord
      BY <3>3, <3>4, <1>0 DEF TradeRecord
    <3> QED
      BY <3>1, <3>3, <3>5, <3>6 DEF RecordStep, IsTrade
  <2>2. CASE t # t0
    BY <1>3, <2>2 DEF approve_trade, IInv, TypeOK, IsTrade, RecordStep
  <2> QED
    BY <2>1, <2>2
<1>4. ASSUME NEW m \in Authority, NEW t0 \in Address, NEW rep \in ExecutionReports,
             execute_trade(m, t0, rep)
      PROVE  IsTrade(t)' /\ RecordStep(trade[t], trade'[t])
  <2>1. CASE t = t0
    <3>1. /\ trade'[t] = [trade[t] EXCEPT !.status = "Executed",
                                          !.output_amount = rep.output_amount,
                                          !.execution_price = rep.execution_price]
          /\ trade[t].status = "Approved"
      BY <1>4, <2>1 DEF execute_trade, IInv, TypeOK
    <3>2. Proposal(trade'[t]) = Proposal(trade[t]) /\ trade'[t].approvals = trade[t].approvals
      BY <3>1, <1>0 DEF Proposal, TradeRecord
    <3>3. trade'[t] \in TradeRecord
      BY <3>1, <1>0, InputAssumption DEF TradeRecord, TradeStatus, ExecutionReport
    <3> QED
      BY <3>1, <3>2, <3>3 DEF RecordStep, IsTrade
  <2>2. CASE t # t0
    BY <1>4, <2>2 DEF execute_trade, IInv, TypeOK, IsTrade, RecordStep
  <2> QED
    BY <2>1, <2>2
<1>5. ASSUME NEW a \in Authority, NEW t0 \in Address, cancel_trade(a, t0)
      PROVE  IsTrade(t)' /\ RecordStep(trade[t], trade'[t])
  <2>1. CASE t = t0
    <3>1. /\ trade'[t] = [trade[t] EXCEPT !.status = "Cancelled"]
          /\ trade[t].status \in {"Pending", "Approved"}
      BY <1>5, <2>1 DEF cancel_trade, IsOpen, IInv, TypeOK
    <3>2. Proposal(trade'[t]) = Proposal(trade[t]) /\ trade'[t].approvals = trade[t].approvals
      BY <3>1, <1>0 DEF Proposal, TradeRecord
    <3>3. trade'[t] \in TradeRecord
      BY <3>1, <1>0 DEF TradeRecord, TradeStatus
    <3> QED
      BY <3>1, <3>2, <3>3 DEF RecordStep, IsTrade
  <2>2. CASE t # t0
    BY <1>5, <2>2 DEF cancel_trade, IInv, TypeOK, IsTrade, RecordStep
  <2> QED
    BY <2>1, <2>2
<1> QED
  BY <1>1, <1>2, <1>3, <1>4, <1>5
     DEF Next, vars, initialize_multisig, update_policy

\* No step changes a finalised record, a proposal or takes back an approval.
THEOREM ImmutableHistory == Spec => HistoryIsImmutable
<1>1. IInv /\ [Next]_vars =>
        [\A t \in Address :
           IsTrade(t) =>
             /\ IsTrade(t)'
             /\ Proposal(trade'[t]) = Proposal(trade[t])
             /\ Range(trade[t].approvals) \subseteq Range(trade'[t].approvals)
             /\ trade[t].status \in {"Executed", "Cancelled"} => trade'[t] = trade[t]]_vars
  BY RecordsKept DEF RecordStep
<1> QED
  BY <1>1, Inductive, PTL DEF Spec, HistoryIsImmutable

-----------------------------------------------------------------------------
(* The history *)

\* What history_index numbers: the records of a multisig and its counter.
LEMMA HistoryKept ==
  ASSUME HistoryIsDense,
         \A t \in Address :
           /\ IsTrade(t)' <=> IsTrade(t)
           /\ IsTrade(t) => /\ trade'[t].multisig = trade[t].multisig
                            /\ trade'[t].history_index = trade[t].history_index,
         \A a \in Authority :
           /\ IsMultisig(a)' <=> IsMultisig(a)
           /\ IsMultisig(a) => multisig'[a].trade_count = multisig[a].trade_count
  PROVE  HistoryIsDense'
<1> SUFFICES ASSUME NEW m \in Authority, IsMultisig(m)'
             PROVE  /\ {trade'[t].history_index : t \in TradesOf(m)'}
                         = 0..(multisig'[m].trade_count - 1)
                    /\ \A t, u \in TradesOf(m)' :
                         trade'[t].history_index = trade'[u].history_index => t = u
  BY DEF HistoryIsDense
<1>1. TradesOf(m)' = TradesOf(m)
  BY DEF TradesOf
<1>2. \A t \in TradesOf(m) : trade'[t].history_index = trade[t].history_index
  BY DEF TradesOf
<1>3. {trade'[t].history_index : t \in TradesOf(m)} = {trade[t].history_index : t \in TradesOf(m)}
  BY <1>2
<1>4. IsMultisig(m) /\ multisig'[m].trade_count = multisig[m].trade_count
  OBVIOUS
<1> QED
  BY <1>1, <1>2, <1>3, <1>4 DEF HistoryIsDense

\* A new multisig has no records: none points at an address that held none.
LEMMA InitializeHistory ==
  ASSUME IInv, HistoryIsDense, NEW a \in Authority, NEW owners \in OwnerLists, NEW n \in Int,
         initialize_multisig(a, owners, n)
  PROVE  HistoryIsDense'
<1>1. /\ UNCHANGED trade /\ ~IsMultisig(a) /\ multisig'[a].trade_count = 0
      /\ \A m \in Authority \ {a} : multisig'[m] = multisig[m]
  BY DEF initialize_multisig, IInv, TypeOK
<1>2. TradesOf(a) = {}
  BY <1>1 DEF IInv, ApprovalsSound, TradesOf
<1>3. \A m \in Authority : TradesOf(m)' = TradesOf(m)
  BY <1>1 DEF TradesOf, IsTrade
<1> SUFFICES ASSUME NEW m \in Authority, IsMultisig(m)'
             PROVE  /\ {trade[t].history_index : t \in TradesOf(m)}
                         = 0..(multisig'[m].trade_count - 1)
                    /\ \A t, u \in TradesOf(m) :
                         trade[t].history_index = trade[u].history_index => t = u
  BY <1>1, <1>3 DEF HistoryIsDense
<1>4. CASE m = a
  BY <1>1, <1>2, <1>4
<1>5. CASE m # a
  BY <1>1, <1>5 DEF HistoryIsDense, IsMultisig
<1> QED
  BY <1>4, <1>5

\* The new record takes the number after the last one.
LEMMA OpenHistory ==
  ASSUME IInv, HistoryIsDense, NEW m \in Authority, NEW id \in TradeId,
         NEW p \in TradeParams, open_trade(m, id, p)
  PROVE  HistoryIsDense'
<1> DEFINE t0 == <<m, id>>
           n == multisig[m].trade_count
           Index(a) == {trade[t].history_index : t \in TradesOf(a)}
<1>1. /\ t0 \in Address /\ IsMultisig(m) /\ ~IsTrade(t0)
      /\ trade'[t0].multisig = m /\ trade'[t0].history_index = n
      /\ \A t \in Address \ {t0} : trade'[t] = trade[t]
      /\ multisig'[m].trade_count = n + 1
      /\ \A a \in Authority \ {m} : multisig'[a] = multisig[a]
  BY DEF open_trade, IInv, TypeOK, Address, NextHistoryIndex, NextTradeCount, IsMultisig
<1>2. IsTrade(t0)'
  <2>1. PICK r \in TradeRecord : trade' = [trade EXCEPT ![t0] = r]
    BY OpenedRecord
  <2> QED
    BY <1>1, <2>1, NoAccountAssumption DEF IsTrade, IInv, TypeOK
<1>3. n \in Nat
  BY <1>1 DEF IInv, TypeOK, IsMultisig, MultisigConfig
<1>4. t0 \notin TradesOf(m)
  BY <1>1 DEF TradesOf
<1>5. TradesOf(m)' = TradesOf(m) \cup {t0}
  BY <1>1, <1>2 DEF TradesOf, IsTrade
<1>6. \A a \in Authority \ {m} : TradesOf(a)' = TradesOf(a)
  BY <1>1, <1>2 DEF TradesOf, IsTrade
<1>7. \A a \in Authority : \A t \in TradesOf(a) : t # t0 /\ trade'[t] = trade[t]
  BY <1>1 DEF TradesOf
<1> SUFFICES ASSUME NEW a \in Authority, IsMultisig(a)'
             PROVE  /\ {trade'[t].history_index : t \in TradesOf(a)'}
                         = 0..(multisig'[a].trade_count - 1)
                    /\ \A t, u \in TradesOf(a)' :
                         trade'[t].history_index = trade'[u].history_index => t = u
  BY DEF HistoryIsDense
<1>8. CASE a = m
  <2>1. Index(m) = 0..(n - 1)
    BY <1>1 DEF HistoryIsDense
  <2>2. {trade'[t].history_index : t \in TradesOf(m)'} = Index(m) \cup {n}
    BY <1>1, <1>5, <1>7
  <2>3. 0..((n + 1) - 1) = (0..(n - 1)) \cup {n}
    BY <1>3
  <2>4. \A t \in TradesOf(m) : trade[t].history_index # n
    <3>1. \A t \in TradesOf(m) : trade[t].history_index \in 0..(n - 1)
      BY <2>1
    <3> QED
      BY <3>1, <1>3
  <2>5. \A t, u \in TradesOf(m) : trade[t].history_index = trade[u].history_index => t = u
    BY <1>1 DEF HistoryIsDense
  <2>6. \A t, u \in TradesOf(m)' :
          trade'[t].history_index = trade'[u].history_index => t = u
    BY <1>1, <1>5, <1>7, <2>4, <2>5
  <2> QED
    BY <1>8, <1>1, <2>1, <2>2, <2>3, <2>6
<1>9. CASE a # m
  <2>1. /\ TradesOf(a)' = TradesOf(a) /\ multisig'[a] = multisig[a]
        /\ \A t \in TradesOf(a) : trade'[t] = trade[t]
    BY <1>1, <1>6, <1>7, <1>9
  <2>2. IsMultisig(a)
    BY <2>1 DEF IsMultisig
  <2>3. {trade'[t].history_index : t \in TradesOf(a)} = Index(a)
    BY <2>1
  <2> QED
    BY <2>1, <2>2, <2>3 DEF HistoryIsDense
<1> QED
  BY <1>8, <1>9

\* In every reachable state the records of a multisig are a complete history:
\* numbered without a gap or a duplicate.
THEOREM HistoryComplete == Spec => []HistoryIsDense
<1>1. Init => HistoryIsDense
  BY DEF Init, HistoryIsDense, IsMultisig
<1>2. IInv /\ HistoryIsDense /\ [Next]_vars => HistoryIsDense'
  <2> SUFFICES ASSUME IInv, HistoryIsDense, [Next]_vars
               PROVE  HistoryIsDense'
    OBVIOUS
  <2>1. ASSUME NEW a \in Authority, NEW owners \in OwnerLists,
               NEW n \in 0..(MaxOwners + 1), initialize_multisig(a, owners, n)
        PROVE  HistoryIsDense'
    BY <2>1, InitializeHistory
  <2>2. ASSUME NEW a \in Authority, NEW sl \in Bps, NEW dv \in Bps, NEW mask \in Mask,
               update_policy(a, sl, dv, mask)
        PROVE  HistoryIsDense'
    <3>1. \A t \in Address : trade'[t] = trade[t]
      BY <2>2 DEF update_policy
    <3>2. \A m \in Authority : /\ IsMultisig(m)' <=> IsMultisig(m)
                               /\ multisig'[m].trade_count = multisig[m].trade_count
      <4>1. multisig[a] \in MultisigConfig
        BY <2>2 DEF update_policy, IInv, TypeOK, IsMultisig
      <4>2. /\ \A m \in Authority \ {a} : multisig'[m] = multisig[m]
            /\ multisig'[a].trade_count = multisig[a].trade_count
            /\ multisig'[a] \in MultisigConfig
        BY <2>2, <4>1, NumberAssumption, InputAssumption
           DEF update_policy, IInv, TypeOK, MultisigConfig
      <4> QED
        BY <4>1, <4>2, NoAccountAssumption DEF IsMultisig
    <3> QED
      BY <3>1, <3>2, HistoryKept DEF IsTrade
  <2>3. ASSUME NEW m \in Authority, NEW id \in TradeId, NEW p \in TradeParams,
               open_trade(m, id, p)
        PROVE  HistoryIsDense'
    BY <2>3, OpenHistory
  <2>4. ASSUME NEW t0 \in Address, IsTrade(t0), UNCHANGED multisig, IInv',
               \A t \in Address \ {t0} : trade'[t] = trade[t]
        PROVE  HistoryIsDense'
    <3>1. ASSUME NEW t \in Address, IsTrade(t)
          PROVE  /\ IsTrade(t)' /\ trade'[t].multisig = trade[t].multisig
                 /\ trade'[t].history_index = trade[t].history_index
      <4>1. IsTrade(t)' /\ Proposal(trade'[t]) = Proposal(trade[t])
        BY <3>1, RecordsKept DEF RecordStep
      <4>2. trade[t] \in TradeRecord /\ trade'[t] \in TradeRecord
        BY <2>4, <3>1, <4>1 DEF IInv, TypeOK, IsTrade
      <4>3. \A r \in TradeRecord : /\ Proposal(r).multisig = r.multisig
                                  /\ Proposal(r).history_index = r.history_index
        BY DEF Proposal, TradeRecord
      <4> QED
        BY <4>1, <4>2, <4>3
    <3>2. \A t \in Address : IsTrade(t)' => IsTrade(t)
      BY <2>4 DEF IsTrade
    <3> QED
      BY <2>4, <3>1, <3>2, HistoryKept DEF IsMultisig
  <2>5. ASSUME NEW m \in Authority, NEW t \in Address, NEW owner \in Key,
               approve_trade(m, t, owner)
        PROVE  HistoryIsDense'
    <3>1. IsTrade(t) /\ UNCHANGED multisig /\ \A u \in Address \ {t} : trade'[u] = trade[u]
      BY <2>5 DEF approve_trade, IsOpen, IInv, TypeOK
    <3> QED
      BY <2>4, <2>5, <3>1, ApproveIInv
  <2>6. ASSUME NEW m \in Authority, NEW t \in Address, NEW rep \in ExecutionReports,
               execute_trade(m, t, rep)
        PROVE  HistoryIsDense'
    <3>1. IsTrade(t) /\ UNCHANGED multisig /\ \A u \in Address \ {t} : trade'[u] = trade[u]
      BY <2>6 DEF execute_trade, IInv, TypeOK
    <3> QED
      BY <2>4, <2>6, <3>1, ExecuteIInv
  <2>7. ASSUME NEW a \in Authority, NEW t \in Address, cancel_trade(a, t)
        PROVE  HistoryIsDense'
    <3>1. IsTrade(t) /\ UNCHANGED multisig /\ \A u \in Address \ {t} : trade'[u] = trade[u]
      BY <2>7 DEF cancel_trade, IsOpen, IInv, TypeOK
    <3> QED
      BY <2>4, <2>7, <3>1, CancelIInv
  <2>8. CASE UNCHANGED vars
    BY <2>8, HistoryKept DEF vars, IsTrade, IsMultisig
  <2> QED
    BY <2>1, <2>2, <2>3, <2>5, <2>6, <2>7, <2>8 DEF Next
<1> QED
  BY <1>1, <1>2, Inductive, PTL DEF Spec

-----------------------------------------------------------------------------
(* Refinement of QuorumDecision *)

\* A step that leaves the records alone and every used multisig's owners and
\* threshold as they were is invisible to QuorumDecision.
LEMMA PolicyStutters ==
  ASSUME UNCHANGED trade,
         \A t \in Address : IsTrade(t) =>
           LET m == trade[t].multisig
           IN  /\ multisig'[m].owners = multisig[m].owners
               /\ multisig'[m].threshold = multisig[m].threshold
  PROVE  UNCHANGED Decision!vars
<1>1. phaseBar' = phaseBar /\ votesBar' = votesBar
  BY DEF phaseBar, votesBar, IsTrade
<1>2. electorateBar' = electorateBar /\ needBar' = needBar
  BY DEF electorateBar, needBar, IsTrade
<1> QED
  BY <1>1, <1>2 DEF Decision!vars

\* QuorumDecision counts with its own instance of FiniteSets.
LEMMA DecisionCardinality ==
  ASSUME NEW S
  PROVE  Decision!Cardinality(S) = Cardinality(S)
BY Zenon DEF Decision!Cardinality, Cardinality

LEMMA OpenRefines ==
  ASSUME IInv, NEW m \in Authority, NEW id \in TradeId, NEW p \in TradeParams,
         open_trade(m, id, p)
  PROVE  Decision!Open(<<m, id>>)
<1> USE NoAccountAssumption
<1> DEFINE t0 == <<m, id>>
           E == Range(multisig[m].owners)
           n == multisig[m].threshold
<1>1. /\ t0 \in Address /\ IsMultisig(m) /\ ~IsTrade(t0)
      /\ multisig[m] \in MultisigConfig
  BY DEF open_trade, Address, IInv, TypeOK, IsMultisig
<1>2. /\ trade'[t0].multisig = m /\ trade'[t0].status = "Pending"
      /\ trade'[t0].approvals = << >> /\ trade'[t0] \in TradeRecord
      /\ \A t \in Address : t # t0 => trade'[t] = trade[t]
  BY <1>1, OpenedRecord DEF IInv, TypeOK
<1>3. \A a \in Authority : /\ multisig'[a].owners = multisig[a].owners
                          /\ multisig'[a].threshold = multisig[a].threshold
  BY <1>1 DEF open_trade, IInv, TypeOK, MultisigConfig
<1>4. IsTrade(t0)' /\ \A t \in Address : t # t0 => (IsTrade(t)' <=> IsTrade(t))
  BY <1>1, <1>2 DEF IsTrade, IInv, TypeOK
<1>5. \A t \in Address : IsTrade(t) => trade[t].multisig \in Authority
  BY DEF IInv, TypeOK, IsTrade, TradeRecord
<1>6. E \in SUBSET Key /\ n \in 1..Cardinality(E)
  <2>1. /\ multisig[m].owners \in Seq(Key \cup {DefaultKey})
        /\ UniqueOwners(multisig[m].owners)
        /\ n \in 1..Len(multisig[m].owners)
    BY <1>1, OwnersAssumption DEF IInv, MultisigsSound, MultisigConfig
  <2>2. Cardinality(E) = Len(multisig[m].owners)
    BY <2>1, RangeCardinality DEF UniqueOwners
  <2> QED
    BY <2>1, <2>2 DEF UniqueOwners, Range
<1>7. phaseBar[t0] = "absent" /\ phaseBar' = [phaseBar EXCEPT ![t0] = "open"]
  BY <1>1, <1>2, <1>4 DEF phaseBar
<1>8. electorateBar' = [electorateBar EXCEPT ![t0] = E]
  BY <1>1, <1>2, <1>3, <1>4, <1>5 DEF electorateBar
<1>9. needBar' = [needBar EXCEPT ![t0] = n]
  BY <1>1, <1>2, <1>3, <1>4, <1>5 DEF needBar
<1>10. votesBar' = votesBar
  <2>1. Range(trade'[t0].approvals) = {}
    BY <1>2 DEF Range
  <2> QED
    BY <1>1, <1>2, <1>4, <2>1 DEF votesBar
<1> HIDE DEF E, n
<1>11. \E EE \in SUBSET Key :
         /\ electorateBar' = [electorateBar EXCEPT ![t0] = EE]
         /\ \E k \in 1..Decision!Cardinality(EE) : needBar' = [needBar EXCEPT ![t0] = k]
  <2>1. n \in 1..Decision!Cardinality(E)
    BY <1>6, DecisionCardinality
  <2> QED
    BY <1>6, <1>8, <1>9, <2>1, Zenon
<1> QED
  BY <1>7, <1>10, <1>11, Zenon DEF Decision!Open

LEMMA ApproveRefines ==
  ASSUME IInv, NEW m \in Authority, NEW t0 \in Address, NEW owner \in Key,
         approve_trade(m, t0, owner)
  PROVE  Decision!Vote(t0, owner)
<1> USE NoAccountAssumption
<1> DEFINE w == WithApproval(trade[t0].approvals, owner)
<1>1. /\ IsTrade(t0) /\ trade[t0] \in TradeRecord /\ trade[t0].multisig = m
      /\ trade[t0].status \in {"Pending", "Approved"}
      /\ owner \in Range(multisig[m].owners)
      /\ trade[t0].approvals \in Seq(Key) /\ IsInjective(trade[t0].approvals)
  BY DEF approve_trade, IsOpen, IsTrade, IInv, TypeOK, ApprovalsSound, RecordSound,
         TradeRecord
<1>2. \A s \in Seq(Key), o \in Key :
        IsInjective(s) => /\ WithApproval(s, o) \in Seq(Key)
                          /\ Range(WithApproval(s, o)) = Range(s) \cup {o}
  BY WithApprovalSound
<1>3. w \in Seq(Key) /\ Range(w) = Range(trade[t0].approvals) \cup {owner}
  BY <1>1, <1>2
<1>4. PICK st \in {"Pending", "Approved"} :
        trade' = [trade EXCEPT ![t0] = [trade[t0] EXCEPT !.approvals = w, !.status = st]]
  BY <1>1 DEF approve_trade, IInv, TypeOK
<1> HIDE DEF w
<1>5. /\ trade'[t0].approvals = w /\ trade'[t0].status = st
      /\ trade'[t0].multisig = m /\ trade'[t0] \in TradeRecord
      /\ \A t \in Address : t # t0 => trade'[t] = trade[t]
  BY <1>1, <1>3, <1>4 DEF IInv, TypeOK, TradeRecord, TradeStatus
<1>6. UNCHANGED multisig
  BY DEF approve_trade
<1>7. \A t \in Address : IsTrade(t)' <=> IsTrade(t)
  BY <1>1, <1>5 DEF IsTrade
<1>8. phaseBar[t0] = "open" /\ phaseBar' = phaseBar
  BY <1>1, <1>4, <1>5, <1>7 DEF phaseBar
<1>9. /\ owner \in electorateBar[t0]
      /\ electorateBar' = electorateBar /\ needBar' = needBar
  BY <1>1, <1>5, <1>6, <1>7 DEF electorateBar, needBar
<1>10. votesBar' = [votesBar EXCEPT ![t0] = @ \cup {owner}]
  BY <1>1, <1>3, <1>5, <1>7 DEF votesBar
<1> QED
  BY <1>8, <1>9, <1>10 DEF Decision!Vote

\* A record decided as r: only its phase changes for QuorumDecision.
LEMMA DecidePhase ==
  ASSUME IInv, NEW t0 \in Address, IsOpen(t0), NEW r \in TradeRecord,
         r.multisig = trade[t0].multisig, r.approvals = trade[t0].approvals,
         trade' = [trade EXCEPT ![t0] = r], UNCHANGED multisig
  PROVE  /\ phaseBar[t0] = "open"
         /\ r.status = "Executed" => phaseBar' = [phaseBar EXCEPT ![t0] = "executed"]
         /\ r.status = "Cancelled" => phaseBar' = [phaseBar EXCEPT ![t0] = "cancelled"]
         /\ UNCHANGED <<electorateBar, needBar, votesBar>>
<1> USE NoAccountAssumption
<1>1. /\ trade'[t0] = r /\ IsTrade(t0) /\ trade[t0].status \in {"Pending", "Approved"}
      /\ \A t \in Address : t # t0 => trade'[t] = trade[t]
      /\ \A t \in Address : IsTrade(t)' <=> IsTrade(t)
  BY DEF IsOpen, IsTrade, IInv, TypeOK
<1>2. phaseBar[t0] = "open"
  BY <1>1 DEF phaseBar
<1>3. r.status = "Executed" => phaseBar' = [phaseBar EXCEPT ![t0] = "executed"]
  BY <1>1 DEF phaseBar
<1>4. r.status = "Cancelled" => phaseBar' = [phaseBar EXCEPT ![t0] = "cancelled"]
  BY <1>1 DEF phaseBar
<1>5. electorateBar' = electorateBar /\ needBar' = needBar /\ votesBar' = votesBar
  BY <1>1 DEF electorateBar, needBar, votesBar
<1> QED
  BY <1>2, <1>3, <1>4, <1>5

LEMMA ExecuteRefines ==
  ASSUME IInv, NEW m \in Authority, NEW t0 \in Address, NEW rep \in ExecutionReports,
         execute_trade(m, t0, rep)
  PROVE  Decision!Execute(t0)
<1> DEFINE r == [trade[t0] EXCEPT !.status = "Executed",
                                  !.output_amount = rep.output_amount,
                                  !.execution_price = rep.execution_price]
<1>1. trade[t0] \in TradeRecord /\ IsOpen(t0) /\ trade[t0].status = "Approved"
  BY DEF execute_trade, IsOpen, IsTrade, IInv, TypeOK
<1>2. /\ r \in TradeRecord /\ r.status = "Executed"
      /\ r.multisig = trade[t0].multisig /\ r.approvals = trade[t0].approvals
  BY <1>1, InputAssumption DEF TradeRecord, TradeStatus, ExecutionReport
<1>3. trade' = [trade EXCEPT ![t0] = r] /\ UNCHANGED multisig
  BY <1>1 DEF execute_trade, IInv, TypeOK
<1> HIDE DEF r
<1>4. /\ trade[t0].approvals \in Seq(Key) /\ IsInjective(trade[t0].approvals)
      /\ Len(trade[t0].approvals) >= multisig[trade[t0].multisig].threshold
  BY <1>1 DEF IsOpen, IInv, ApprovalsSound, RecordSound, TradeRecord
<1>5. \A s \in Seq(Key) : IsInjective(s) => Cardinality(Range(s)) = Len(s)
  BY RangeCardinality
<1>6. Decision!Cardinality(votesBar[t0]) >= needBar[t0]
  BY <1>1, <1>4, <1>5, DecisionCardinality DEF votesBar, needBar, IsOpen
<1> QED
  BY <1>1, <1>2, <1>3, <1>6, DecidePhase DEF Decision!Execute

LEMMA CancelRefines ==
  ASSUME IInv, NEW a \in Authority, NEW t0 \in Address, cancel_trade(a, t0)
  PROVE  Decision!Cancel(t0)
<1> DEFINE r == [trade[t0] EXCEPT !.status = "Cancelled"]
<1>1. trade[t0] \in TradeRecord /\ IsOpen(t0)
  BY DEF cancel_trade, IsOpen, IsTrade, IInv, TypeOK
<1>2. /\ r \in TradeRecord /\ r.status = "Cancelled"
      /\ r.multisig = trade[t0].multisig /\ r.approvals = trade[t0].approvals
  BY <1>1 DEF TradeRecord, TradeStatus
<1>3. trade' = [trade EXCEPT ![t0] = r] /\ UNCHANGED multisig
  BY <1>1 DEF cancel_trade, IInv, TypeOK
<1> HIDE DEF r
<1> QED
  BY <1>1, <1>2, <1>3, DecidePhase DEF Decision!Cancel

\* The program implements QuorumDecision for every instance.
THEOREM RefinesQuorumDecision == Spec => ImplementsQuorumDecision
<1>1. Init => Decision!Init
  BY DEF Init, Decision!Init, phaseBar, electorateBar, needBar, votesBar, IsTrade
<1>2. IInv /\ [Next]_vars => [Decision!Next]_Decision!vars
  <2> SUFFICES ASSUME IInv, [Next]_vars PROVE [Decision!Next]_Decision!vars
    OBVIOUS
  <2> USE NoAccountAssumption
  <2>0. \A t \in Address : IsTrade(t) => /\ trade[t].multisig \in Authority
                                        /\ IsMultisig(trade[t].multisig)
    BY DEF IInv, TypeOK, ApprovalsSound, IsTrade, TradeRecord
  <2>1. ASSUME NEW a \in Authority, NEW owners \in OwnerLists, NEW n \in Int,
               initialize_multisig(a, owners, n)
        PROVE  UNCHANGED Decision!vars
    BY <2>0, <2>1, PolicyStutters DEF initialize_multisig, IInv, TypeOK, IsMultisig
  <2>2. ASSUME NEW a \in Authority, NEW sl \in Bps, NEW dv \in Bps, NEW mask \in Mask,
               update_policy(a, sl, dv, mask)
        PROVE  UNCHANGED Decision!vars
    BY <2>0, <2>2, PolicyStutters
       DEF update_policy, IInv, TypeOK, IsMultisig, MultisigConfig
  <2>3. ASSUME NEW m \in Authority, NEW id \in TradeId, NEW p \in TradeParams,
               open_trade(m, id, p)
        PROVE  Decision!Next
    BY <2>3, OpenRefines DEF Decision!Next, Address
  <2>4. ASSUME NEW m \in Authority, NEW t \in Address, NEW owner \in Key,
               approve_trade(m, t, owner)
        PROVE  Decision!Next
    BY <2>4, ApproveRefines DEF Decision!Next
  <2>5. ASSUME NEW m \in Authority, NEW t \in Address, NEW rep \in ExecutionReports,
               execute_trade(m, t, rep)
        PROVE  Decision!Next
    BY <2>5, ExecuteRefines DEF Decision!Next
  <2>6. ASSUME NEW a \in Authority, NEW t \in Address, cancel_trade(a, t)
        PROVE  Decision!Next
    BY <2>6, CancelRefines DEF Decision!Next
  <2>7. CASE UNCHANGED vars
    BY <2>7, PolicyStutters DEF vars
  <2> QED
    BY <2>1, <2>2, <2>3, <2>4, <2>5, <2>6, <2>7, OwnersAssumption DEF Next
<1> QED
  BY <1>1, <1>2, Inductive, PTL DEF Spec, Decision!Spec, ImplementsQuorumDecision
=============================================================================
