--------------------------- MODULE LocalWorkspace ---------------------------
(***************************************************************************)
(* The local product records: src/lib/marketplace.ts and subscription.ts,  *)
(* kept by marketplace-workspace.tsx and subscription-planner.tsx in one   *)
(* storage entry each, and the export, import and reset of                 *)
(* local-data-tools.tsx.  Every tab has a whole copy of the records and    *)
(* writes the whole entry after each of its changes.                       *)
(*                                                                         *)
(* Names, texts and tiers are left out, and the gig's status, which        *)
(* nothing pauses.  Ids are UUIDs: the number of records of that kind made *)
(* so far.  Files are those an export made.                                *)
(***************************************************************************)
EXTENDS Integers, FiniteSets, TLC

CONSTANTS
    Tabs,
    Prices,             \* that somebody enters
    MaxPrepaidPeriods,
    MaxMade,            \* bound: records of each kind
    MaxFiles            \* bound: exports

ASSUME LocalAssumption ==
    /\ Prices \subseteq Nat /\ MaxPrepaidPeriods \in Nat \ {0}
    /\ MaxMade \in [{"profiles", "gigs", "proposals", "orders", "receipts", "feed", "plans"} -> Nat]
    /\ MaxFiles \in Nat
    /\ \A m, n \in Prices : ToString(m) = ToString(n) => m = n

VARIABLES
    tabs,       \* tab -> the copies its page shows, or Loading
    local,      \* the two entries of localStorage; no plans read as none
    files,      \* exported backups
    made        \* kind -> records made so far

localVars == <<tabs, local, files, made>>

EmptyMarketplace == [profiles |-> {}, gigs |-> {}, proposals |-> {},
                     orders |-> {}, receipts |-> {}, feed |-> {}]
Absent == [is |-> "absent"]        \* an entry that was removed
Refused == [is |-> "invalid"]      \* what a decoder refuses
Loading == [is |-> "loading"]      \* a page before it has read the entries
Removed == [market |-> Absent, plans |-> {}]

-----------------------------------------------------------------------------
(* Encodings: amounts are bigints in a page and decimal texts elsewhere.   *)

WithAmounts(m, F) ==
    [m EXCEPT !.gigs = {[g EXCEPT !.price = F[@]] : g \in @},
              !.orders = {[o EXCEPT !.amount = F[@]] : o \in @},
              !.receipts = {[r EXCEPT !.amount = F[@]] : r \in @}]

Decimal == [n \in Prices |-> ToString(n)]
BigInt == [text \in {ToString(n) : n \in Prices} |-> CHOOSE n \in Prices : ToString(n) = text]

EncodeMarketplace(m) == WithAmounts(m, Decimal)
Decoded(entry) == IF entry = Absent THEN EmptyMarketplace ELSE WithAmounts(entry, BigInt)

Positive(m) ==
    /\ \A g \in m.gigs : g.price > 0
    /\ \A x \in m.orders \cup m.receipts : x.amount > 0

\* A backup's amounts must be positive, or there is no backup at all.
DecodeMarketplace(entry) ==
    IF entry = Absent \/ ~Positive(Decoded(entry)) THEN Refused ELSE Decoded(entry)

CreateLocalWorkspaceBackup(market, plans) ==
    [version |-> 1, marketplace |-> EncodeMarketplace(market), subscriptions |-> plans]

ParseLocalWorkspaceBackup(file) ==
    IF file.version # 1 \/ DecodeMarketplace(file.marketplace) = Refused THEN Refused
    ELSE [market |-> DecodeMarketplace(file.marketplace), plans |-> file.subscriptions]

-----------------------------------------------------------------------------
(* Operations on the marketplace; id is a new one.                         *)

UpsertProfile(m, id) == {[m EXCEPT !.profiles = @ \cup {id}]}

CreateGig(m, id) ==
    {[m EXCEPT !.gigs = @ \cup {[id |-> id, creator |-> c, price |-> p]}] :
        c \in m.profiles, p \in Prices \ {0}}

SubmitProposal(m, id) ==
    UNION {{[m EXCEPT !.proposals =
                @ \cup {[id |-> id, gig |-> g.id, buyer |-> b, status |-> "pending"]}] :
               b \in m.profiles \ {g.creator}} : g \in m.gigs}

Order(m, proposal, id) ==
    LET gig == CHOOSE g \in m.gigs : g.id = proposal.gig
    IN  [id |-> id, proposal |-> proposal.id, gig |-> gig.id, buyer |-> proposal.buyer,
         creator |-> gig.creator, amount |-> gig.price, status |-> "awaiting_payment", receipt |-> 0]

\* Plausible bug: a proposal is accepted whatever became of it.
AcceptAgain(m, id) ==
    {[m EXCEPT !.proposals = (@ \ {p}) \cup {[p EXCEPT !.status = "accepted"]},
               !.orders = @ \cup {Order(m, p, id)}] : p \in m.proposals}

AcceptProposal(m, id) ==
    {[m EXCEPT !.proposals = (@ \ {p}) \cup {[p EXCEPT !.status = "accepted"]},
               !.orders = @ \cup {Order(m, p, id)}] :
        p \in {p \in m.proposals : p.status = "pending"}}

\* The order o goes on to a status, with a local record of the payment.
Recorded(m, o, status, kind, id) ==
    [m EXCEPT !.orders = (@ \ {o}) \cup {[o EXCEPT !.status = status, !.receipt = id]},
              !.receipts = @ \cup {[id |-> id, order |-> o.id, kind |-> kind, amount |-> o.amount]}]

FundOrder(m, id) ==
    {Recorded(m, o, "funded", "deposit_reviewed", id) :
        o \in {o \in m.orders : o.status = "awaiting_payment"}}

RecordDelivery(m) ==
    {[m EXCEPT !.orders = (@ \ {o}) \cup {[o EXCEPT !.status = "delivered"]}] :
        o \in {o \in m.orders : o.status = "funded"}}

SettleOrder(m, id) ==
    UNION {{Recorded(m, o, "settled", "seller_claim", id), Recorded(m, o, "refunded", "refund", id)} :
              o \in {o \in m.orders : o.status = "delivered"}}

AppendFeedPost(m, id) == {[m EXCEPT !.feed = @ \cup {[id |-> id, creator |-> c]}] : c \in m.profiles}

ReputationFor(m, profile) ==
    LET relevant == {o \in m.orders : profile \in {o.buyer, o.creator}}
    IN  [completed |-> Cardinality({o \in relevant : o.status = "settled"}),
         refunded |-> Cardinality({o \in relevant : o.status = "refunded"})]

-----------------------------------------------------------------------------
(* Operations on the subscription plans.                                   *)

StartSubscription(plans, id) ==
    plans \cup {[id |-> id, prepaid |-> 1, claimed |-> 0, state |-> "active"]}

Changed(plans, s, changed) == (plans \ {s}) \cup {changed}

Prepay(plans) ==
    {Changed(plans, s, [s EXCEPT !.prepaid = @ + 1]) :
        s \in {s \in plans : s.state = "active" /\ s.prepaid < MaxPrepaidPeriods}}

CancelPlan(plans) ==
    {Changed(plans, s, [s EXCEPT !.state = "cancelled"]) : s \in {s \in plans : s.state = "active"}}

ClaimCreatorPeriod(plans) ==
    {Changed(plans, s, [s EXCEPT !.claimed = @ + 1]) : s \in {s \in plans : s.prepaid > s.claimed}}

-----------------------------------------------------------------------------
(* Pages.                                                                  *)

LocalInit ==
    /\ tabs = [t \in Tabs |-> Loading]
    /\ local = Removed
    /\ files = {} /\ made = [kind \in DOMAIN MaxMade |-> 0]

\* A page reads both entries and, once it is ready, writes what it read.
Load(t) ==
    /\ tabs[t] = Loading
    /\ LET read == [market |-> Decoded(local.market), plans |-> local.plans]
       IN  /\ tabs' = [tabs EXCEPT ![t] = read]
           /\ local' = [market |-> EncodeMarketplace(read.market), plans |-> read.plans]
    /\ UNCHANGED <<files, made>>

ReloadTab(t) ==
    /\ tabs[t] # Loading
    /\ tabs' = [tabs EXCEPT ![t] = Loading]
    /\ UNCHANGED <<local, files, made>>

\* An operation of the marketplace that makes a record of a kind; what it throws
\* leaves everything alone.
ActOnMarket(t, kind, results) ==
    /\ tabs[t] # Loading /\ made[kind] < MaxMade[kind]
    /\ \E next \in results :
          /\ tabs' = [tabs EXCEPT ![t].market = next]
          /\ local' = [local EXCEPT !.market = EncodeMarketplace(next)]
    /\ made' = [made EXCEPT ![kind] = @ + 1]
    /\ UNCHANGED files

NewId(kind) == made[kind] + 1

DeliveryRecorded(t) ==
    /\ tabs[t] # Loading
    /\ \E next \in RecordDelivery(tabs[t].market) :
          /\ tabs' = [tabs EXCEPT ![t].market = next]
          /\ local' = [local EXCEPT !.market = EncodeMarketplace(next)]
    /\ UNCHANGED <<files, made>>

Planned(t, next) ==
    /\ tabs' = [tabs EXCEPT ![t].plans = next]
    /\ local' = [local EXCEPT !.plans = next]
    /\ UNCHANGED files

ActOnPlans(t) ==
    /\ tabs[t] # Loading
    /\ \/ /\ made["plans"] < MaxMade["plans"]
          /\ Planned(t, StartSubscription(tabs[t].plans, NewId("plans")))
          /\ made' = [made EXCEPT !["plans"] = @ + 1]
       \/ /\ \E next \in Prepay(tabs[t].plans) \cup CancelPlan(tabs[t].plans)
                           \cup ClaimCreatorPeriod(tabs[t].plans) : Planned(t, next)
          /\ UNCHANGED made

\* The entries are exported, not what the page shows.
ExportBackup(t) ==
    /\ tabs[t] # Loading /\ Cardinality(files) < MaxFiles
    /\ DecodeMarketplace(local.market) # Refused
    /\ files' = files \cup {CreateLocalWorkspaceBackup(DecodeMarketplace(local.market),
                                                       local.plans)}
    /\ UNCHANGED <<tabs, local, made>>

\* The entries are replaced; the page shows its copies until it reloads, 450 ms
\* later, and writes them back if somebody uses it before.
ImportBackup(t) ==
    /\ tabs[t] # Loading
    /\ \E f \in files :
         LET restored == ParseLocalWorkspaceBackup(f)
         IN  /\ restored # Refused
             /\ local' = [market |-> EncodeMarketplace(restored.market), plans |-> restored.plans]
    /\ UNCHANGED <<tabs, files, made>>

ResetWorkspace(t) ==
    /\ tabs[t] # Loading
    /\ local' = Removed
    /\ tabs' = [tabs EXCEPT ![t] = Loading]
    /\ UNCHANGED <<files, made>>

LocalNext == \E t \in Tabs :
    \/ Load(t) \/ ReloadTab(t)
    \/ ActOnMarket(t, "profiles", UpsertProfile(tabs[t].market, NewId("profiles")))
    \/ ActOnMarket(t, "gigs", CreateGig(tabs[t].market, NewId("gigs")))
    \/ ActOnMarket(t, "proposals", SubmitProposal(tabs[t].market, NewId("proposals")))
    \/ ActOnMarket(t, "orders", AcceptProposal(tabs[t].market, NewId("orders")))
    \/ ActOnMarket(t, "receipts", FundOrder(tabs[t].market, NewId("receipts")))
    \/ ActOnMarket(t, "receipts", SettleOrder(tabs[t].market, NewId("receipts")))
    \/ ActOnMarket(t, "feed", AppendFeedPost(tabs[t].market, NewId("feed")))
    \/ DeliveryRecorded(t) \/ ActOnPlans(t)
    \/ ExportBackup(t) \/ ImportBackup(t) \/ ResetWorkspace(t)

-----------------------------------------------------------------------------
\* The receipts that an order of a status has.
Kinds == [awaiting_payment |-> {}, funded |-> {"deposit_reviewed"}, delivered |-> {"deposit_reviewed"},
          settled |-> {"deposit_reviewed", "seller_claim"}, refunded |-> {"deposit_reviewed", "refund"}]

Agrees(w) ==
    LET m == w.market
        ReceiptsOf(orders) == {r \in m.receipts : \E o \in orders : r.order = o.id}
    IN
    /\ \A p \in m.proposals :
          Cardinality({o \in m.orders : o.proposal = p.id}) = IF p.status = "accepted" THEN 1 ELSE 0
    /\ \A o \in m.orders :
          /\ \E p \in m.proposals : p.id = o.proposal /\ p.gig = o.gig /\ p.buyer = o.buyer
          /\ {o.buyer, o.creator} \subseteq m.profiles /\ o.buyer # o.creator
          /\ {r.kind : r \in ReceiptsOf({o})} = Kinds[o.status]
          /\ Cardinality(ReceiptsOf({o})) = Cardinality(Kinds[o.status])
          /\ \A r \in ReceiptsOf({o}) : r.amount = o.amount /\ r.id <= o.receipt
    /\ \A c \in m.profiles :
          LET own == ReceiptsOf({o \in m.orders : c \in {o.buyer, o.creator}})
          IN  ReputationFor(m, c) =
                [completed |-> Cardinality({r \in own : r.kind = "seller_claim"}),
                 refunded |-> Cardinality({r \in own : r.kind = "refund"})]
    /\ \A s \in w.plans : s.claimed <= s.prepaid /\ s.prepaid <= MaxPrepaidPeriods

Workspaces ==
    {tabs[t] : t \in {t \in Tabs : tabs[t] # Loading}}
      \cup {[market |-> Decoded(local.market), plans |-> local.plans]}
      \cup {ParseLocalWorkspaceBackup(f) : f \in files}

\* "Marketplace creates a proposal-led order and local receipt trail"
\* (tests/marketplace.test.ts:12) and "already prepaid periods remain claimable"
\* (subscription-planner.tsx:25): whatever two tabs overwrite, export, restore or
\* reset, every copy has one order for an accepted proposal, the receipts of each
\* order's status, reputations that the receipts bear out and claims that were paid.
LocalRecordsAgree == \A w \in Workspaces : Agrees(w)

\* "Local workspace backup round-trips public product records"
\* (tests/local-workspace-backup.test.ts:7): whatever was stored can be exported,
\* and its backup restores the same records.
BackupsRestore ==
    local.market # Absent =>
      LET market == DecodeMarketplace(local.market)
      IN  /\ market # Refused
          /\ ParseLocalWorkspaceBackup(CreateLocalWorkspaceBackup(market, local.plans))
               = [market |-> market, plans |-> local.plans]
=============================================================================
