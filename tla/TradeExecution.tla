--------------------------- MODULE TradeExecution ---------------------------
(***************************************************************************)
(* The Anchor program contracts/programs/trade_execution: a multisig       *)
(* account per authority and one trade record per (multisig, trade id).    *)
(* Every instruction is one atomic transaction; an instruction whose       *)
(* require! fails leaves the accounts as they were, so it is a disabled    *)
(* action here.                                                            *)
(*                                                                         *)
(* Both accounts live at program-derived addresses and are created with    *)
(* `init`: an address is its seed, the authority's key for a multisig and  *)
(* the pair (multisig, trade id) for a record, and it is initialised once. *)
(*                                                                         *)
(* Mut_X, before a definition it mutates, is that definition with a bug a  *)
(* change of the code could introduce; no action refers to it.             *)
(***************************************************************************)
EXTENDS Integers, Sequences, FiniteSets, Functions

CONSTANTS
  Key,          \* public keys that may sign a transaction
  Authority,    \* the keys that create a multisig of their own
  DefaultKey,   \* Pubkey::default()
  OwnerLists,   \* owner vectors a caller may pass to initialize_multisig
  MaxOwners,    \* MultisigConfig::MAX_OWNERS and TradeRecord::MAX_APPROVALS
  TradeId,      \* trade ids callers choose
  Price,        \* oracle and execution prices (i64)
  Amount,       \* amount_in, min_out and output_amount values (u64)
  Bps,          \* basis-point arguments (u16)
  Mask,         \* allowed_dex_mask arguments, as sets of bits
  Route,        \* route hashes
  Mints,        \* (input mint, output mint) pairs
  Program,      \* executable accounts passed as the DEX program
  ProgramsOf,   \* ProgramsOf[d]: the program ids accepted for DEX d
  TradeParams,      \* arguments of open_trade the instance tries
  ExecutionReports, \* arguments of execute_trade the instance tries
  NoAccount     \* an address that holds no account

DexSource == {"jupiter", "raydium", "orca"}

\* allowed_dex_mask is a u8: three bits name a DEX, the others name nothing.
MaskBit == DexSource \cup {"unassigned"}
all_mask == DexSource

PolicyCap == 5000

TradeStatus == {"Pending", "Approved", "Executed", "Cancelled"}

VARIABLES
  multisig,     \* multisig[a]: the account at the PDA of authority a
  trade         \* trade[<<a, id>>]: the record at the PDA of (multisig a, id)

vars == <<multisig, trade>>

Address == Authority \X TradeId

MultisigConfig ==
  [owners : OwnerLists, threshold : Nat, max_slippage_bps : Nat,
   max_oracle_deviation_bps : Nat, allowed_dex : SUBSET MaskBit,
   trade_count : Nat]

TradeRecord ==
  [multisig : Authority, status : TradeStatus, dex : DexSource, mints : Mints,
   route : Route, amount_in : Amount, min_out : Amount, oracle_price : Price,
   max_slippage_bps : Bps, approvals : Seq(Key), history_index : Nat,
   output_amount : Amount \cup {0}, execution_price : Price \cup {0}]

Params ==
  [dex : DexSource, mints : Mints, route : Route, amount_in : Amount,
   min_out : Amount, oracle_price : Price, max_slippage_bps : Bps]

ExecutionReport ==
  [mints : Mints, route : Route, program : Program, output_amount : Amount,
   execution_price : Price]

ASSUME KeyAssumption == DefaultKey \notin Key /\ Authority \subseteq Key
ASSUME OwnersAssumption ==
  /\ MaxOwners \in Nat \ {0}
  /\ OwnerLists \subseteq Seq(Key \cup {DefaultKey})
ASSUME NumberAssumption ==
  /\ Price \subseteq Int
  /\ Amount \subseteq Nat
  /\ Bps \subseteq Nat
ASSUME InputAssumption ==
  /\ Mask \subseteq SUBSET MaskBit
  /\ TradeParams \subseteq Params
  /\ ExecutionReports \subseteq ExecutionReport
ASSUME NoAccountAssumption ==
  NoAccount \notin MultisigConfig /\ NoAccount \notin TradeRecord

IsMultisig(a) == multisig[a] # NoAccount
IsTrade(t) == trade[t] # NoAccount

Init ==
  /\ multisig = [a \in Authority |-> NoAccount]
  /\ trade = [t \in Address |-> NoAccount]

Mut_OwnersMayRepeat(owners) == DefaultKey \notin Range(owners)

\* ensure_unique_owners
UniqueOwners(owners) ==
  /\ DefaultKey \notin Range(owners)
  /\ IsInjective(owners)

initialize_multisig(authority, owners, threshold) ==
  /\ ~IsMultisig(authority)
  /\ owners # << >>
  /\ Len(owners) <= MaxOwners
  /\ threshold \in 1..Len(owners)
  /\ UniqueOwners(owners)
  /\ multisig' = [multisig EXCEPT ![authority] =
       [owners |-> owners, threshold |-> threshold, max_slippage_bps |-> 100,
        max_oracle_deviation_bps |-> 150, allowed_dex |-> all_mask,
        trade_count |-> 0]]
  /\ UNCHANGED trade

update_policy(authority, slippage, deviation, mask) ==
  /\ IsMultisig(authority)
  /\ slippage <= PolicyCap
  /\ deviation <= PolicyCap
  /\ mask # {}
  /\ multisig' = [multisig EXCEPT ![authority].max_slippage_bps = slippage,
                                  ![authority].max_oracle_deviation_bps = deviation,
                                  ![authority].allowed_dex = mask]
  /\ UNCHANGED trade

Mut_HistoryIndexBehind(m) == multisig[m].trade_count - 1

\* The number of the multisig's next trade, and checked_add(1) on it.
NextHistoryIndex(m) == multisig[m].trade_count

NextTradeCount(m) == multisig[m].trade_count + 1

\* The trader is any signer: open_trade compares it with nothing.
open_trade(m, id, p) ==
  /\ IsMultisig(m)
  /\ ~IsTrade(<<m, id>>)
  /\ p.max_slippage_bps <= multisig[m].max_slippage_bps
  /\ p.dex \in multisig[m].allowed_dex
  /\ p.amount_in > 0
  /\ p.min_out > 0
  /\ p.oracle_price > 0
  /\ trade' = [trade EXCEPT ![<<m, id>>] =
       [multisig |-> m, status |-> "Pending", dex |-> p.dex, mints |-> p.mints,
        route |-> p.route, amount_in |-> p.amount_in, min_out |-> p.min_out,
        oracle_price |-> p.oracle_price, max_slippage_bps |-> p.max_slippage_bps,
        approvals |-> << >>, history_index |-> NextHistoryIndex(m),
        output_amount |-> 0, execution_price |-> 0]]
  /\ multisig' = [multisig EXCEPT ![m].trade_count = NextTradeCount(m)]

Mut_FinalIsOpen(t) == IsTrade(t)

\* Neither executed nor cancelled: what approve_trade and cancel_trade require.
IsOpen(t) == IsTrade(t) /\ trade[t].status \in {"Pending", "Approved"}

Mut_ApprovalRepeats(approvals, owner) == Append(approvals, owner)

\* record.approvals after the contains / push of one owner.
WithApproval(approvals, owner) ==
  IF owner \in Range(approvals) THEN approvals ELSE Append(approvals, owner)

approve_trade(m, t, owner) ==
  /\ IsMultisig(m)
  /\ owner \in Range(multisig[m].owners)
  /\ IsOpen(t)
  /\ trade[t].multisig = m
  /\ Len(trade[t].approvals) < MaxOwners
  /\ LET approvals == WithApproval(trade[t].approvals, owner)
         status == IF Len(approvals) >= multisig[m].threshold
                   THEN "Approved" ELSE trade[t].status
     IN  trade' = [trade EXCEPT ![t].approvals = approvals, ![t].status = status]
  /\ UNCHANGED multisig

Distance(a, b) == IF a > b THEN a - b ELSE b - a

Mut_DeviationOneSided(oracle, execution, limit) ==
  /\ oracle > 0
  /\ execution > 0
  /\ ((oracle - execution) * 10000) \div oracle <= limit

\* verify_price_deviation: u128 arithmetic, which no i64 difference overflows.
PriceDeviationOK(oracle, execution, limit) ==
  /\ oracle > 0
  /\ execution > 0
  /\ (Distance(oracle, execution) * 10000) \div oracle <= limit

Mut_ExecutePending(m, t, report) ==
  /\ IsMultisig(m)
  /\ IsOpen(t)
  /\ trade[t].multisig = m
  /\ trade' = [trade EXCEPT ![t].status = "Executed",
                            ![t].output_amount = report.output_amount,
                            ![t].execution_price = report.execution_price]
  /\ UNCHANGED multisig

execute_trade(m, t, report) ==
  /\ IsMultisig(m)
  /\ IsTrade(t)
  /\ trade[t].multisig = m
  /\ trade[t].status = "Approved"
  /\ report.output_amount >= trade[t].min_out
  /\ report.mints = trade[t].mints
  /\ report.route = trade[t].route
  /\ report.program \in ProgramsOf[trade[t].dex]
  /\ PriceDeviationOK(trade[t].oracle_price, report.execution_price,
                      multisig[m].max_oracle_deviation_bps)
  /\ trade' = [trade EXCEPT ![t].status = "Executed",
                            ![t].output_amount = report.output_amount,
                            ![t].execution_price = report.execution_price]
  /\ UNCHANGED multisig

\* The signer is the authority of some multisig; the record is any record.
cancel_trade(authority, t) ==
  /\ IsMultisig(authority)
  /\ IsOpen(t)
  /\ trade' = [trade EXCEPT ![t].status = "Cancelled"]
  /\ UNCHANGED multisig

Next ==
  \/ \E a \in Authority, owners \in OwnerLists, threshold \in 0..(MaxOwners + 1) :
       initialize_multisig(a, owners, threshold)
  \/ \E a \in Authority, slippage, deviation \in Bps, mask \in Mask :
       update_policy(a, slippage, deviation, mask)
  \/ \E m \in Authority, id \in TradeId, p \in TradeParams : open_trade(m, id, p)
  \/ \E m \in Authority, t \in Address, owner \in Key : approve_trade(m, t, owner)
  \/ \E m \in Authority, t \in Address, report \in ExecutionReports :
       execute_trade(m, t, report)
  \/ \E a \in Authority, t \in Address : cancel_trade(a, t)

Spec == Init /\ [][Next]_vars

-----------------------------------------------------------------------------
(* Properties *)

\* Every account holds values of its layout, and an open record's approvals
\* fit the space LEN reserves for them.
TypeOK ==
  /\ multisig \in [Authority -> MultisigConfig \cup {NoAccount}]
  /\ trade \in [Address -> TradeRecord \cup {NoAccount}]
  /\ \A t \in Address : IsTrade(t) => Len(trade[t].approvals) <= MaxOwners

\* A trade is executed only if `threshold` different owners of its own
\* multisig approved it, however often and in whatever order owners retried.
ExecutedByQuorum ==
  \A t \in Address :
    IsTrade(t) /\ trade[t].status = "Executed" =>
      LET m == trade[t].multisig
          voters == Range(trade[t].approvals) \cap Range(multisig[m].owners)
      IN  Cardinality(voters) >= multisig[m].threshold

\* A pending trade is never wedged below its threshold: some owner has not
\* approved yet and the MAX_APPROVALS check does not refuse that owner.
PendingCanReachQuorum ==
  \A t \in Address :
    IsTrade(t) /\ trade[t].status = "Pending" =>
      LET owners == Range(multisig[trade[t].multisig].owners)
      IN  \E owner \in owners :
            /\ owner \notin Range(trade[t].approvals)
            /\ Len(trade[t].approvals) < MaxOwners

TradesOf(m) == {t \in Address : IsTrade(t) /\ trade[t].multisig = m}

\* history_index numbers the trades of a multisig 0, 1, 2, ... with no gap and
\* no duplicate, so the records are a complete history.
HistoryIsDense ==
  \A m \in Authority :
    IsMultisig(m) =>
      /\ {trade[t].history_index : t \in TradesOf(m)} = 0..(multisig[m].trade_count - 1)
      /\ \A t, u \in TradesOf(m) :
           trade[t].history_index = trade[u].history_index => t = u

\* Whatever the policy was changed to between open and execute, an executed
\* price is never further than the policy cap from the recorded oracle price
\* (the division truncates: the bound is PolicyCap + 1, exclusive), and the
\* output covers the recorded minimum.
ExecutedNearOracle ==
  \A t \in Address :
    IsTrade(t) /\ trade[t].status = "Executed" =>
      /\ Distance(trade[t].oracle_price, trade[t].execution_price) * 10000
           < (PolicyCap + 1) * trade[t].oracle_price
      /\ trade[t].output_amount >= trade[t].min_out
      /\ trade[t].min_out > 0

Proposal(r) == [r EXCEPT !.status = "Pending", !.approvals = << >>,
                         !.output_amount = 0, !.execution_price = 0]

\* The README's immutable history: a finalised record never changes again and
\* no record, open or final, changes what was proposed or loses an approval.
HistoryIsImmutable ==
  [][\A t \in Address :
       IsTrade(t) =>
         /\ IsTrade(t)'
         /\ Proposal(trade'[t]) = Proposal(trade[t])
         /\ Range(trade[t].approvals) \subseteq Range(trade'[t].approvals)
         /\ trade[t].status \in {"Executed", "Cancelled"} => trade'[t] = trade[t]]_vars

\* The accounts seen as QuorumDecision sees them: Pending and Approved are one
\* phase, an approval is a vote and the policy is invisible.
phaseBar ==
  [t \in Address |->
     IF ~IsTrade(t) THEN "absent"
     ELSE CASE trade[t].status = "Executed"  -> "executed"
            [] trade[t].status = "Cancelled" -> "cancelled"
            [] OTHER                         -> "open"]
electorateBar ==
  [t \in Address |->
     IF IsTrade(t) THEN Range(multisig[trade[t].multisig].owners) ELSE {}]
needBar ==
  [t \in Address |->
     IF IsTrade(t) THEN multisig[trade[t].multisig].threshold ELSE 0]
votesBar == [t \in Address |-> IF IsTrade(t) THEN Range(trade[t].approvals) ELSE {}]

Decision == INSTANCE QuorumDecision WITH
  Item <- Address, Voter <- Key, phase <- phaseBar,
  electorate <- electorateBar, need <- needBar, votes <- votesBar

\* Whatever is approved, retried, re-priced or cancelled in whatever order, the
\* program decides each proposal once and executes it only after enough votes
\* of the electorate it was opened with.
ImplementsQuorumDecision == Decision!Spec

=============================================================================
