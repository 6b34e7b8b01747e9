------------------------------- MODULE Staking -------------------------------
(***************************************************************************)
(* Staking: staking.service, admin-staking.service, and the staff roles    *)
(* that say who may change a pool and who receives the fees.               *)
(*                                                                         *)
(* createStake (a Caller) reads the pool and the user's stakes, then locks *)
(* the amount and inserts the stake in one transaction.  processDueStakes  *)
(* (a Settler) lists matured stakes and settles them one transaction each; *)
(* the interval of index.ts runs it every minute without waiting for the   *)
(* previous round, and every GET /mine runs it too.  A settlement reads    *)
(* the stake without a lock, resolves the treasury, and commits.           *)
(*                                                                         *)
(* applyBalanceChangeTx reads a wallet without a lock and later writes the *)
(* sum it has computed: every transaction here reads the wallets it will   *)
(* change, and others may commit in between.  (The row lock that its first *)
(* update holds until it commits only makes fewer of these orders real.)   *)
(* Interest is left to Net and Fee (StakingMath).                          *)
(***************************************************************************)
EXTENDS StaffRoles, Sequences, Functions

CONSTANTS
    Pool,
    Stake,      \* 1..n: stakes are numbered as they are created
    Asset,
    Terms,      \* of a pool: [lock, cooldown, min, cap, ...]; no cap is a high one
    Staker,     \* users who stake
    Amount,     \* amounts they ask to stake
    Caller,     \* 1..n: createStake calls served at the same time
    Settler,    \* 1..n: processDueStakes calls served at the same time
    BatchSize,  \* stakes one round takes: 200
    InitialBalance,
    PoolRow,    \* the rows administrators make of a pool
    MaxServed,  \* bound: requests and rounds served at the same time
    MaxAsked,   \* bound on changes and stakes together, see Spare
    MaxClock,   \* bound on the clock
    Net(_, _),  \* applyRewardFee(computeGrossStakeReward(..)).netInterest
    Fee(_, _)   \* and .feeAmount, of an amount under terms

VARIABLES
    pool,     \* StakingPool: asset, terms, isActive
    deleting, \* pools for which deleteStakingPool has counted no stake
    stake,    \* UserStake
    balance,  \* available balance per user and asset
    entries,  \* sum of the wallet's LedgerEntry rows
    exposed,  \* history: amounts committed while another call had read the wallet
    seen,     \* what each open transaction has read of the wallets
    paid,     \* STAKE_EXIT entries per stake: their assets
    fees,     \* STAKE_INTEREST_FEE entries per stake: who received them
    call,     \* createStake calls, with what they have read
    settler,  \* processDueStakes calls: what is left, what is being settled
    raced,    \* history: two settlements of the stake overlapped
    switched, \* history: pools whose asset was changed
    now

wallets == <<balance, entries, exposed, seen>>
rows == <<pool, stake, wallets, paid, fees>>
stakingVars == <<rows, deleting, call, settler, raced, switched, now>>
vars == <<staffVars, stakingVars>>

Absent  == [status |-> "NONE"]
NoPool  == [isActive |-> FALSE]
Deleted == [isActive |-> FALSE, deleted |-> TRUE]
Idle    == [step |-> "idle"]

\* The transaction of a createStake call, and that of a round.
Txn     == ({"call"} \X Caller) \cup ({"round"} \X Settler)
Unread  == -1
Nothing == [u \in User |-> [c \in Asset |-> Unread]]

ASSUME StakingAssumption ==
    /\ PoolRow \subseteq [asset : Asset, terms : Terms, isActive : BOOLEAN]
    /\ \A terms \in Terms :
         /\ {terms.lock, terms.cooldown, terms.cap} \subseteq Nat
         /\ \A amount \in Amount : {Net(amount, terms), Fee(amount, terms)} \subseteq Nat
    /\ Amount \subseteq Nat \ {0}
    /\ Staker \subseteq User
    /\ IsFiniteSet(Asset)
    /\ IsFiniteSet(Stake) /\ Stake = 1..Cardinality(Stake)
    /\ {InitialBalance, MaxClock} \subseteq Nat

UserStake ==
    [status : {"ACTIVE", "COMPLETED"}, user : User, pool : Pool, asset : Asset,
     amount : Amount, terms : Terms, startedAt : Nat, maturesAt : Nat]
OpenCall ==
    [step : {"commit"}, user : User, pool : Pool, asset : Asset,
     terms : Terms, amount : Amount, maturesAt : Nat, raced : BOOLEAN]
OpenRound ==
    [step : {"next", "commit"}, due : SUBSET Stake, id : Stake \cup {None},
     asset : Asset \cup {None}, treasury : User \cup {None}]

TypeOK ==
    /\ StaffTypeOK
    /\ pool \in [Pool -> {NoPool, Deleted} \cup PoolRow]
    /\ deleting \subseteq Pool
    /\ stake \in [Stake -> {Absent} \cup UserStake]
    /\ balance \in [User -> [Asset -> Nat]]
    /\ entries \in [User -> [Asset -> Int]]
    /\ exposed \in [User -> [Asset -> Nat]]
    /\ seen \in [Txn -> [User -> [Asset -> Nat \cup {Unread}]]]
    /\ paid \in [Stake -> Seq(Asset)]
    /\ fees \in [Stake -> Seq(User)]
    /\ call \in [Caller -> {Idle} \cup OpenCall]
    /\ settler \in [Settler -> {Idle} \cup OpenRound]
    /\ raced \in [Stake -> BOOLEAN]
    /\ switched \subseteq Pool
    /\ now \in 0..MaxClock

Init ==
    /\ StaffInit
    /\ pool = [p \in Pool |-> NoPool]
    /\ deleting = {}
    /\ stake = [s \in Stake |-> Absent]
    /\ balance = [u \in User |-> [c \in Asset |-> InitialBalance]]
    /\ entries = [u \in User |-> [c \in Asset |-> 0]]
    /\ exposed = [u \in User |-> [c \in Asset |-> 0]]
    /\ seen = [t \in Txn |-> Nothing]
    /\ paid = [s \in Stake |-> <<>>]
    /\ fees = [s \in Stake |-> <<>>]
    /\ call = [c \in Caller |-> Idle]
    /\ settler = [k \in Settler |-> Idle]
    /\ raced = [s \in Stake |-> FALSE]
    /\ switched = {}
    /\ now = 0

-----------------------------------------------------------------------------
(* Administrators. *)

Exists(s) == stake[s] # Absent
Active(s) == stake[s].status = "ACTIVE"

\* Bound: there is room for one more request or round.
Room ==
    Cardinality({q \in Request : request[q] # NoRequest})
      + Cardinality({c \in Caller : call[c] # Idle})
      + Cardinality({k \in Settler : settler[k] # Idle}) < MaxServed

\* Bound: what has been asked so far leaves room for this much; a stake
\* counts for two changes.
Spare(much) ==
    changes + 2 * (Cardinality({s \in Stake : Exists(s)})
                     + Cardinality({c \in Caller : call[c] # Idle})) + much <= MaxAsked

StakesIn(p) == {s \in Stake : Exists(s) /\ stake[s].pool = p}

AnAdminAsks ==
    /\ \E u \in User : RequireAdmin(u)
    /\ UNCHANGED <<roles, request, overlapped, crossed, stake, wallets, paid, fees, call,
                   settler, raced, now>>

CountsAsChange == Spare(1) /\ changes < MaxChanges /\ changes' = changes + 1

\* INVALID_FEE otherwise: Terms hold fees from 0 to 100 only.
CreateStakingPool(p, row) ==
    /\ AnAdminAsks
    /\ pool[p] = NoPool
    /\ pool' = [pool EXCEPT ![p] = row]
    /\ UNCHANGED <<deleting, switched, changes>>

\* Any field, the asset too, whatever has been staked.  The page sends all
\* of them as it has them in its form, from when the form was filled.
UpdateStakingPool(p, row) ==
    /\ AnAdminAsks /\ CountsAsChange
    /\ pool[p] \in PoolRow
    /\ row # pool[p]
    /\ pool' = [pool EXCEPT ![p] = row]
    /\ switched' = IF row.asset = pool[p].asset THEN switched ELSE switched \cup {p}
    /\ UNCHANGED deleting

\* POOL_HAS_STAKES otherwise.
CountStakes(p) ==
    /\ AnAdminAsks /\ CountsAsChange
    /\ pool[p] \in PoolRow
    /\ StakesIn(p) = {}
    /\ deleting' = deleting \cup {p}
    /\ UNCHANGED <<pool, switched>>

\* The foreign key refuses it if a stake came in between.
DeletePool(p) ==
    /\ p \in deleting
    /\ deleting' = deleting \ {p}
    /\ pool' = [pool EXCEPT ![p] = IF StakesIn(p) = {} THEN Deleted ELSE @]
    /\ UNCHANGED <<staffVars, stake, wallets, paid, fees, call, settler, raced,
                   switched, now>>

-----------------------------------------------------------------------------
(* applyBalanceChangeTx. *)

Saw(t, u, asset) == seen[t][u][asset] # Unread

ReadsWallet(t, u, asset) ==
    /\ ~Saw(t, u, asset)
    /\ seen' = [seen EXCEPT ![t][u][asset] = balance[u][asset]]
    /\ UNCHANGED <<staffVars, pool, stake, balance, entries, exposed, paid, fees,
                   deleting, call, settler, raced, switched, now>>

Size(amount) == IF amount < 0 THEN -amount ELSE amount

\* Whatever the row holds by now, user v's wallet becomes the sum of what was
\* read and gets[v].  What others have read of it is then out of date.
Commits(t, asset, gets) ==
    /\ \A v \in User : gets[v] # 0 <=> Saw(t, v, asset)
    /\ balance' = [v \in User |-> [balance[v] EXCEPT ![asset] =
                     IF gets[v] = 0 THEN @ ELSE seen[t][v][asset] + gets[v]]]
    /\ entries' = [v \in User |-> [entries[v] EXCEPT ![asset] = @ + gets[v]]]
    /\ exposed' = [v \in User |-> [exposed[v] EXCEPT ![asset] =
                     IF \E o \in Txn \ {t} : Saw(o, v, asset) THEN @ + Size(gets[v]) ELSE @]]

Forgets(t) == seen' = [seen EXCEPT ![t] = Nothing]

-----------------------------------------------------------------------------
(* createStake. *)

StakesOf(u, p)    == {s \in StakesIn(p) : stake[s].user = u}
ActiveTotal(u, p) ==
    SumFunctionOnSet([s \in Stake |-> IF s \in StakesOf(u, p) /\ Active(s)
                                     THEN stake[s].amount ELSE 0], Stake)

SameCalls(u, p) == {c \in Caller : call[c] # Idle /\ call[c].user = u /\ call[c].pool = p}

\* Mutant: the user's other stakes do not count.
BelowCapEach(u, p, amount) == amount <= pool[p].terms.cap

\* ABOVE_MAX_PER_USER otherwise.
BelowCap(u, p, amount) == ActiveTotal(u, p) + amount <= pool[p].terms.cap

\* STAKE_COOLDOWN otherwise.
CooledDown(u, p) ==
    \A s \in StakesOf(u, p) : now - stake[s].startedAt >= pool[p].terms.cooldown

\* What is read before the transaction; POOL_NOT_FOUND without the first.
CreateStakeRead(c, u, p, amount) ==
    /\ Room /\ Spare(2) /\ c = FirstIdle({d \in Caller : call[d] = Idle})
    /\ pool[p].isActive
    /\ amount >= pool[p].terms.min
    /\ BelowCap(u, p, amount)
    /\ CooledDown(u, p)
    /\ call' = [d \in Caller |->
         IF d = c
         THEN [step |-> "commit", user |-> u, pool |-> p, asset |-> pool[p].asset,
               terms |-> pool[p].terms, amount |-> amount,
               maturesAt |-> now + pool[p].terms.lock, raced |-> SameCalls(u, p) # {}]
         ELSE IF d \in SameCalls(u, p) THEN [call[d] EXCEPT !.raced = TRUE]
         ELSE call[d]]
    /\ UNCHANGED <<staffVars, rows, deleting, settler, raced, switched, now>>

EndsCall(c) == call' = [call EXCEPT ![c] = Idle] /\ Forgets(<<"call", c>>)

CreateStakeReads(c) ==
    call[c] # Idle /\ ReadsWallet(<<"call", c>>, call[c].user, call[c].asset)

\* The debit and the stake, with the pool's terms as they were read.
CreateStakeCommit(c, s) ==
    /\ call[c] # Idle
    /\ s = 1 + Cardinality({z \in Stake : Exists(z)})
    /\ pool[call[c].pool] \in PoolRow
    /\ seen[<<"call", c>>][call[c].user][call[c].asset] >= call[c].amount
    /\ Commits(<<"call", c>>, call[c].asset,
               [v \in User |-> IF v = call[c].user THEN -call[c].amount ELSE 0])
    /\ stake' = [stake EXCEPT ![s] =
         [status |-> "ACTIVE", user |-> call[c].user, pool |-> call[c].pool,
          asset |-> call[c].asset, amount |-> call[c].amount,
          terms |-> call[c].terms, startedAt |-> now,
          maturesAt |-> call[c].maturesAt]]
    /\ EndsCall(c)
    /\ UNCHANGED <<staffVars, pool, deleting, paid, fees, settler, raced, switched, now>>

\* INSUFFICIENT_FUNDS, a pool that has gone, a process that stops: nothing of
\* the transaction stays.
CreateStakeFails(c) ==
    /\ call[c] # Idle
    /\ EndsCall(c)
    /\ UNCHANGED <<staffVars, pool, stake, balance, entries, exposed, paid, fees,
                   deleting, settler, raced, switched, now>>

-----------------------------------------------------------------------------
(* processDueStakes. *)

Due == {s \in Stake : Active(s) /\ stake[s].maturesAt <= now}

Round(due) ==
    IF due = {} THEN Idle
    ELSE [step |-> "next", due |-> due, id |-> None, asset |-> None, treasury |-> None]

\* A round of processDueStakes, the interval's or that of GET /mine.
ListDueStakes(k) ==
    /\ Room /\ k = FirstIdle({j \in Settler : settler[j] = Idle})
    /\ Due # {}
    /\ \E S \in kSubset(Min({BatchSize, Cardinality(Due)}), Due) :
         settler' = [settler EXCEPT ![k] = Round(S)]
    /\ UNCHANGED <<staffVars, rows, deleting, call, raced, switched, now>>

\* resolveTreasuryUserIdInTx; which of several findFirst returns is open.
FeeTarget == IF Treasuries = {} THEN {PlatformFees} ELSE Treasuries

Settling(s) == {k \in Settler : settler[k].step = "commit" /\ settler[k].id = s}

\* What the pool takes by now.
PayoutAsset(s) == pool[stake[s].pool].asset

\* Mutant: a pool that is closed pays no one back.
OpenToSettle(s) == Active(s) /\ pool[stake[s].pool].isActive

\* What settleOne reads of the status.
ToSettle(s) == Active(s)

\* The stake with its pool, and the treasury.
SettleRead(k, s) ==
    /\ settler[k].step = "next" /\ s \in settler[k].due
    /\ ToSettle(s)
    /\ \E u \in FeeTarget :
         settler' = [settler EXCEPT ![k] =
           [settler[k] EXCEPT !.step = "commit", !.id = s, !.due = @ \ {s},
                               !.asset = PayoutAsset(s), !.treasury = u]]
    /\ raced' = [raced EXCEPT ![s] = @ \/ Settling(s) # {}]
    /\ UNCHANGED <<staffVars, rows, deleting, call, switched, now>>

\* Mutant: a stake that another round has completed is settled again.
SettleCompleted(k, s) ==
    /\ settler[k].step = "next" /\ s \in settler[k].due
    /\ ~Active(s)
    /\ settler' = [settler EXCEPT ![k] =
         [settler[k] EXCEPT !.step = "commit", !.id = s, !.due = @ \ {s},
                             !.asset = PayoutAsset(s)]]
    /\ UNCHANGED <<staffVars, rows, deleting, call, raced, switched, now>>

\* Another round was faster.
SettleSkips(k, s) ==
    /\ settler[k].step = "next" /\ s \in settler[k].due
    /\ ~ToSettle(s)
    /\ settler' = [settler EXCEPT ![k] = Round(@.due \ {s})]
    /\ UNCHANGED <<staffVars, rows, deleting, call, raced, switched, now>>

\* Mutant: interest at what the pool pays by now.
TermsByNow(s) == pool[stake[s].pool].terms

\* The APY, the days and the fee that the stake has copied.
LockTerms(s) == stake[s].terms

NetOf(s) == Net(stake[s].amount, LockTerms(s))
FeeOf(s) == Fee(stake[s].amount, LockTerms(s))

\* No one pays a fee to himself; nor is there always a treasury.
FeeIsCredited(s, u) ==
    u \notin {None, stake[s].user} \cup Blacklisted /\ FeeOf(s) > 0

\* What user v gets when s is settled and u is the treasury.
Gets(v, s, u) ==
    (IF v = stake[s].user THEN stake[s].amount + NetOf(s) ELSE 0)
      + (IF v = u /\ FeeIsCredited(s, u) THEN FeeOf(s) ELSE 0)

\* The owner's wallet is read before it is paid, the treasury's after that.
SettleReadOwner(k, s) ==
    /\ k \in Settling(s)
    /\ ReadsWallet(<<"round", k>>, stake[s].user, settler[k].asset)

SettleReadTreasury(k, s) ==
    /\ k \in Settling(s)
    /\ FeeIsCredited(s, settler[k].treasury)
    /\ Saw(<<"round", k>>, stake[s].user, settler[k].asset)
    /\ ReadsWallet(<<"round", k>>, settler[k].treasury, settler[k].asset)

\* The stake's amount and net interest to its owner, the fee to the treasury,
\* and COMPLETED, on the row whatever its status is by now.
SettleCommit(k, s) ==
    /\ k \in Settling(s)
    /\ LET asset == settler[k].asset
           u     == settler[k].treasury
       IN  /\ Commits(<<"round", k>>, asset, [v \in User |-> Gets(v, s, u)])
           /\ paid' = [paid EXCEPT ![s] = Append(@, asset)]
           /\ fees' = [fees EXCEPT ![s] =
                IF FeeIsCredited(s, u) THEN Append(@, u) ELSE @]
    /\ stake' = [stake EXCEPT ![s].status = "COMPLETED"]
    /\ settler' = [settler EXCEPT ![k] = Round(@.due)]
    /\ Forgets(<<"round", k>>)
    /\ UNCHANGED <<staffVars, pool, deleting, call, raced, switched, now>>

\* The transaction fails and the round goes on, or the database is gone
\* (P1001) or the process stops, and so does the round.
SettleFails(k) ==
    /\ settler[k] # Idle
    /\ \E due \in {settler[k].due, {}} :
         settler' = [settler EXCEPT ![k] = Round(due)]
    /\ Forgets(<<"round", k>>)
    /\ UNCHANGED <<staffVars, pool, stake, balance, entries, exposed, paid, fees,
                   deleting, call, raced, switched, now>>

Tick ==
    /\ now < MaxClock
    /\ now' = now + 1
    /\ UNCHANGED <<staffVars, rows, deleting, call, settler, raced, switched>>

CreateStakeGoesOn(c) ==
    CreateStakeReads(c) \/ CreateStakeFails(c) \/ \E s \in Stake : CreateStakeCommit(c, s)

\* What is being served ends, or a round moves on.
Serves ==
    \/ \E q \in Request : StaffStep(q) /\ UNCHANGED stakingVars
    \/ \E c \in Caller : CreateStakeGoesOn(c)
    \/ \E k \in Settler, s \in Stake : SettleSkips(k, s)

Next ==
    \/ Room /\ Spare(1) /\ StaffRequests /\ UNCHANGED stakingVars
    \/ Serves
    \/ \E p \in Pool :
         \/ \E row \in PoolRow : CreateStakingPool(p, row) \/ UpdateStakingPool(p, row)
         \/ CountStakes(p) \/ DeletePool(p)
         \/ \E c \in Caller, u \in Staker, amount \in Amount : CreateStakeRead(c, u, p, amount)
    \/ \E k \in Settler :
         \/ ListDueStakes(k) \/ SettleFails(k)
         \/ \E s \in Stake : \/ SettleRead(k, s) \/ SettleReadOwner(k, s)
                             \/ SettleReadTreasury(k, s) \/ SettleCommit(k, s)
    \/ Tick

Spec == Init /\ [][Next]_vars

\* The interval lists again and again, and a settlement that is tried again
\* and again goes through; requests end.  No user and no staff has to act.
FairSpec ==
    /\ Spec
    /\ WF_vars(Serves)
    /\ SF_vars(\E k \in Settler : ListDueStakes(k))
    /\ SF_vars(\E k \in Settler, s \in Stake : SettleRead(k, s))
    /\ SF_vars(\E k \in Settler, s \in Stake : SettleReadOwner(k, s))
    /\ SF_vars(\E k \in Settler, s \in Stake : SettleReadTreasury(k, s))
    /\ SF_vars(\E k \in Settler, s \in Stake : SettleCommit(k, s))

-----------------------------------------------------------------------------
(* Properties. *)

\* A stake is paid back once, although every round of the interval and every
\* visit of the staking page settles whatever is due.  Only settlements that
\* overlap, which nothing in the code prevents, pay it again.
PaidOnce ==
    \A s \in Stake :
      /\ Exists(s) => (stake[s].status = "COMPLETED" <=> paid[s] # <<>>)
      /\ ~raced[s] => Len(paid[s]) <= 1
      /\ Len(fees[s]) <= Len(paid[s])

\* How often v is in the sequence.
Times(v, seq) == Cardinality({i \in DOMAIN seq : seq[i] = v})

\* What stake s has brought user u: its payments less what was locked, if it
\* is his, and the fees that were his to receive.
Brought(u) == [s \in Stake |->
    LET amount == stake[s].amount
        terms  == stake[s].terms
        own    == Len(paid[s]) * (amount + Net(amount, terms)) - amount
    IN  IF Exists(s)
        THEN (IF stake[s].user = u THEN own ELSE 0) + Times(u, fees[s]) * Fee(amount, terms)
        ELSE 0]

\* What the ledger says of a user is explained by his stakes, at the terms of
\* their lock, whatever has become of their pools, and by the fees that were
\* his to receive; and a balance differs from its entries by no more than
\* what was committed beside a call or a round that had read it already.
FundsMatchStakes ==
    \A u \in User :
      /\ SumFunctionOnSet(entries[u], Asset) = SumFunctionOnSet(Brought(u), Stake)
      /\ \A asset \in Asset :
           balance[u][asset] - (InitialBalance + entries[u][asset])
             \in -exposed[u][asset]..exposed[u][asset]

\* A stake is paid back in the asset that was locked, unless an administrator
\* has given the pool another asset: the stake does not remember its own.
PaidInKind ==
    \A s \in Stake : \A i \in DOMAIN paid[s] :
      paid[s][i] = stake[s].asset \/ stake[s].pool \in switched

\* No stake is left without its pool, whatever deleteStakingPool has counted
\* and createStake has read.
StakesHavePools ==
    \A s \in Stake : Exists(s) => pool[stake[s].pool] \in PoolRow

\* The rows fit together while administrators change pools and roles, users
\* stake and rounds settle.  Every stake keeps its pool.  The rest has the
\* exceptions the code has: a treasury is the only one unless assignments
\* overlapped, an administrator remains unless one was revoked by somebody who
\* was none any more, and a stake is paid in kind unless its pool's asset was
\* changed.
RowsFitTogether ==
    TypeOK /\ OneTreasury /\ AnAdminRemains /\ StakesHavePools /\ PaidInKind

\* A call that no other call of the user for the pool overlapped keeps the
\* pool's cap and its cooldown, as they were when it began.
LimitsKeptAlone ==
    [][\A s \in Stake, c \in Caller, u \in User, p \in Pool :
         /\ ~Exists(s) /\ Exists(s)'
         /\ c \in SameCalls(u, p) /\ call'[c] = Idle /\ ~call[c].raced
         => /\ ActiveTotal(u, p)' <= call[c].terms.cap
            /\ \A z \in StakesOf(u, p) :
                 stake'[s].startedAt - stake[z].startedAt >= call[c].terms.cooldown]_vars

\* A stake that has matured is paid back, without anybody asking.
MaturedIsPaid ==
    \A s \in Stake : s \in Due ~> paid[s] # <<>>

=============================================================================
