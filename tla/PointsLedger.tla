---------------------------- MODULE PointsLedger ----------------------------
(***************************************************************************)
(* Points (points_accounts.go, points_orders.go, points_site_bridge.go,    *)
(* affiliate_commands.go, affiliate_ownership.go).  Members check in,      *)
(* orders reserve and settle points, verified owners of an invite code are *)
(* paid for each paid invitee, administrators link identities and merge    *)
(* accounts.  Each transaction is one action; the requests that talk to    *)
(* the invite service between two transactions are kept in flight.         *)
(***************************************************************************)
EXTENDS Integers, FiniteSets, FiniteSetsExt

CONSTANTS
  NumIdentities, \* (transport, instance, sender) triples, in their sort order
  SiteClients,   \* those of site services, which never send chat commands
  Codes,         \* invite codes
  CheckInDays,   \* the days of check-ins
  CheckInPoints,
  Rates,         \* pointsPerPaidInvitee, as the policy is edited
  MaxPaid,       \* bound: paid invitees of a code
  OrderRefs,     \* (source, external_ref) of orders
  Prices,
  MaxInFlight,   \* bound: requests that wait for the invite service
  MaxMerges      \* bound: accounts that are merged away

Identities == 1..NumIdentities
\* initialAccountID is a hash of the identity: accounts are named after the
\* identity that opened them.
Accounts == Identities
None == 0
NoCode == "none"

ASSUME PointsAssumption ==
  /\ NumIdentities \in Nat /\ SiteClients \subseteq Identities
  /\ NoCode \notin Codes
  /\ MaxPaid \in Nat /\ MaxInFlight \in Nat /\ MaxMerges \in Nat
  /\ CheckInPoints \in Nat \ {0} /\ Rates \subseteq Nat \ {0} /\ Prices \subseteq Nat \ {0}

\* reference_key: a check-in and its day, an invite award and the count it
\* goes up to (from and upto), an order's debit or refund.
Entries ==
  [who : Identities, kind : {"check_in"}, day : CheckInDays, points : {CheckInPoints}]
    \cup [who : Identities, kind : {"invite"}, code : Codes, from : 0..MaxPaid, upto : 1..MaxPaid,
          points : Nat]
    \cup [who : Identities, kind : {"debit", "refund"}, ref : OrderRefs, points : Int]
NoOrder == [status |-> "none"]
OrderStatus == {"reserved", "committed", "refunded"}

VARIABLES
  accountOf,  \* agent_points_identities: the account of an identity, or None
  opened,     \* rows of agent_points_accounts
  mergedInto, \* their merged_into, None for a live account
  entries,    \* agent_points_ledger
  checkins,   \* agent_points_checkins
  orders,     \* agent_points_orders
  bindings,   \* agent_affiliate_bindings
  owners,     \* agent_affiliate_owners: code -> identity, or None
  asked       \* requests that wait for the invite service or its answer

pointsVars == <<accountOf, opened, mergedInto, entries, checkins, orders, bindings, owners,
                asked>>
accountVars == <<accountOf, opened, mergedInto>>
affiliateVars == <<bindings, owners, asked>>

\* bind: bound, waiting; sync: verified, waiting; credit: answered with count.
Requests == [step : {"bind", "sync", "credit"}, who : Identities, code : Codes, count : 0..MaxPaid]

\* The tables have their shape: an identity's account was opened, and the
\* verified owner of a code is bound to it.
PointsTypeOK ==
  /\ accountOf \in [Identities -> Accounts \cup {None}]
  /\ opened \subseteq Accounts
  /\ mergedInto \in [Accounts -> Accounts \cup {None}]
  /\ entries \subseteq Entries
  /\ checkins \subseteq Accounts \X CheckInDays
  /\ orders \in [OrderRefs -> [account : Accounts, who : Identities, points : Prices,
                               status : OrderStatus] \cup {NoOrder}]
  /\ bindings \in [Identities -> Codes \cup {NoCode}]
  /\ owners \in [Codes -> Identities \cup {None}]
  /\ asked \subseteq Requests
  /\ \A i \in Identities : accountOf[i] # None => accountOf[i] \in opened
  /\ \A c \in Codes : owners[c] # None => bindings[owners[c]] = c

PointsInit ==
  /\ accountOf = [i \in Identities |-> None]
  /\ opened = {} /\ mergedInto = [a \in Accounts |-> None]
  /\ entries = {} /\ checkins = {} /\ orders = [r \in OrderRefs |-> NoOrder]
  /\ bindings = [i \in Identities |-> NoCode] /\ owners = [c \in Codes |-> None]
  /\ asked = {}

-----------------------------------------------------------------------------
(* Accounts.                                                               *)

Hop(a) == IF mergedInto[a] = None THEN a ELSE mergedInto[a]
\* pointsCanonicalAccount takes up to 64 hops.  Two stand for them here, since
\* one is always enough: MergesFlat.
Canonical(a) == Hop(Hop(a))

MembersOf(a) == {i \in Identities : accountOf[i] = a}
EntriesOf(a) == {e \in entries : accountOf[e.who] = a}
\* pointsBalance: the sum of the entries of the identities of an account.
Balance(a) == FoldSet(LAMBDA e, sum : sum + e.points, 0, EntriesOf(a))

\* ensurePointsIdentity, the first statement of every transaction of a member.
AccountFor(i) == IF accountOf[i] = None THEN i ELSE accountOf[i]
EnsureIdentity(i) ==
  /\ accountOf' = [accountOf EXCEPT ![i] = AccountFor(i)]
  /\ opened' = IF accountOf[i] = None THEN opened \cup {i} ELSE opened
  /\ UNCHANGED mergedInto

\* linkPointsIdentity: an identity without an account joins one.
LinkIdentity(i, a) ==
  /\ a \in opened /\ accountOf[i] = None
  /\ accountOf' = [accountOf EXCEPT ![i] = Canonical(a)]
  /\ UNCHANGED <<opened, mergedInto, entries, checkins, orders, affiliateVars>>

OwnedCodes(accounts) == {c \in Codes : owners[c] # None /\ accountOf[owners[c]] \in accounts}

OneTarget(source, target) == [mergedInto EXCEPT ![source] = target]
\* UPDATE agent_points_accounts ... WHERE id = source OR merged_into = source.
MergeTargets(source, target) ==
  [a \in Accounts |-> IF a = source \/ mergedInto[a] = source THEN target ELSE mergedInto[a]]

SameCheckins(source, target) == checkins
SharedCheckins(source, target) ==
  checkins \cup {<<target, d>> : d \in {day \in CheckInDays : <<source, day>> \in checkins}}

LeftBehind(source, target) == orders
MovedOrders(source, target) ==
  [r \in OrderRefs |-> IF orders[r] # NoOrder /\ orders[r].account = source
                       THEN [orders[r] EXCEPT !.account = target] ELSE orders[r]]

MergeAccounts(source, asTarget) ==
  /\ {source, asTarget} \subseteq opened /\ source # asTarget
  /\ LET target == Canonical(asTarget) IN
       /\ Canonical(source) # target /\ Canonical(source) = source
       /\ Cardinality(OwnedCodes({source, target})) <= 1
       /\ Cardinality({a \in Accounts : mergedInto[a] # None}) < MaxMerges
       /\ checkins' = SharedCheckins(source, target)
       /\ accountOf' = [i \in Identities |-> IF accountOf[i] = source THEN target ELSE accountOf[i]]
       /\ orders' = MovedOrders(source, target)
       /\ mergedInto' = MergeTargets(source, target)
  /\ UNCHANGED <<opened, entries, affiliateVars>>

-----------------------------------------------------------------------------
(* Check-ins and orders.                                                   *)

\* recordDailyCheckIn; the day was read off the clock before the transaction,
\* so that days may come in any order.
CheckIn(i, day) ==
  /\ i \in SiteClients => accountOf[i] # None
  /\ EnsureIdentity(i)
  /\ IF <<AccountFor(i), day>> \in checkins THEN UNCHANGED <<checkins, entries>>
     ELSE /\ checkins' = checkins \cup {<<AccountFor(i), day>>}
          /\ entries' = entries \cup
               {[who |-> i, kind |-> "check_in", day |-> day, points |-> CheckInPoints]}
  /\ UNCHANGED <<orders, affiliateVars>>

InCredit(account, points) == Balance(account) > 0
Affordable(account, points) == Balance(account) >= points

\* reservePointsOrder: a replay of the same order returns it, another one for
\* the same reference is refused; neither writes.
ReserveOrder(r, a, points) ==
  /\ a \in opened
  /\ LET account == Canonical(a)
         who == Min(MembersOf(account))
     IN /\ orders[r] = NoOrder /\ Affordable(account, points)
        /\ orders' = [orders EXCEPT ![r] =
             [account |-> account, who |-> who, points |-> points, status |-> "reserved"]]
        /\ entries' = entries \cup
             {[who |-> who, kind |-> "debit", ref |-> r, points |-> -points]}
  /\ UNCHANGED <<accountVars, checkins, affiliateVars>>

\* resolvePointsOrder: committed orders have left the system, refunded ones
\* give their points back.
ResolveOrder(r, status) ==
  /\ orders[r].status = "reserved" /\ status \in {"committed", "refunded"}
  /\ orders' = [orders EXCEPT ![r].status = status]
  /\ entries' = IF status = "refunded"
                THEN entries \cup {[who |-> orders[r].who, kind |-> "refund", ref |-> r,
                                    points |-> orders[r].points]}
                ELSE entries
  /\ UNCHANGED <<accountVars, checkins, affiliateVars>>

-----------------------------------------------------------------------------
(* Invite codes.                                                           *)

OwnsCode(i, c) == owners[c] # None /\ accountOf[i] # None /\ accountOf[owners[c]] = accountOf[i]
\* boundAffiliateCode: the binding of the identity, else a code its account
\* owns (the code takes the oldest).
BoundCodes(i) ==
  IF bindings[i] # NoCode THEN {bindings[i]} ELSE {c \in Codes : OwnsCode(i, c)}
\* affiliateOwnerVerified.
Verified(i, c) == OwnsCode(i, c) /\ bindings[owners[c]] = c

AskService(request) ==
  /\ Cardinality(asked) < MaxInFlight
  /\ asked' = asked \cup {request}

\* /bind: without a code yet, asks the service about this one.
AskBind(i, c) ==
  /\ i \notin SiteClients /\ BoundCodes(i) = {}
  /\ AskService([step |-> "bind", who |-> i, code |-> c, count |-> 0])
  /\ UNCHANGED <<accountVars, entries, checkins, orders, bindings, owners>>

\* The answer: INSERT OR IGNORE keeps a binding that was made meanwhile.  A
\* second transaction opens the account, unless the process stops before it.
Bind(q) ==
  /\ q.step = "bind"
  /\ EnsureIdentity(q.who) \/ UNCHANGED accountVars
  /\ bindings' = IF bindings[q.who] = NoCode THEN [bindings EXCEPT ![q.who] = q.code] ELSE bindings
  /\ asked' = asked \ {q}
  /\ UNCHANGED <<entries, checkins, orders, owners>>

\* handleAffiliateOwnership: the first approved identity keeps the code.
ApproveOwner(i, c) ==
  /\ i \notin SiteClients /\ c \in BoundCodes(i)
  /\ EnsureIdentity(i)
  /\ owners' = IF owners[c] = None THEN [owners EXCEPT ![c] = i] ELSE owners
  /\ UNCHANGED <<entries, checkins, orders, bindings, asked>>

\* pointsAccount: a verified owner's account is synchronised with the service;
\* the bridges only read, and open an account.
AskSync(i, c) ==
  /\ i \notin SiteClients /\ c \in BoundCodes(i) /\ Verified(i, c)
  /\ AskService([step |-> "sync", who |-> i, code |-> c, count |-> 0])
  /\ UNCHANGED <<accountVars, entries, checkins, orders, bindings, owners>>

OpenAccount(i) ==
  /\ EnsureIdentity(i)
  /\ UNCHANGED <<entries, checkins, orders, affiliateVars>>

\* The service counts: more over time, and less when a payment is reversed.
Answered(q, n) ==
  /\ q.step = "sync"
  /\ asked' = (asked \ {q}) \cup {[q EXCEPT !.step = "credit", !.count = n]}
  /\ UNCHANGED <<accountVars, entries, checkins, orders, bindings, owners>>

\* It fails, or does not know the code.
Unanswered(q) ==
  /\ asked' = asked \ {q}
  /\ UNCHANGED <<accountVars, entries, checkins, orders, bindings, owners>>

Awards(c) == {e \in entries : e.kind = "invite" /\ e.code = c}
LastAward(i, c) == Max({e.upto : e \in {f \in Awards(c) : f.who = i}} \cup {0})
\* The largest count awarded for a code, to whichever identity.
HighWater(i, c) == Max({e.upto : e \in Awards(c)} \cup {0})

\* creditInvitePoints: one statement reads the mark and credits what is above.
Credit(q, rate) ==
  /\ q.step = "credit"
  /\ LET from == HighWater(q.who, q.code) IN
       entries' = IF Verified(q.who, q.code) /\ q.count > from
                  THEN entries \cup {[who |-> q.who, kind |-> "invite", code |-> q.code,
                                      from |-> from, upto |-> q.count,
                                      points |-> (q.count - from) * rate]}
                  ELSE entries
  /\ asked' = asked \ {q}
  /\ UNCHANGED <<accountVars, checkins, orders, bindings, owners>>

\* migratePointsAccounts at the start of the process; requests are lost.
RestartPoints ==
  LET known == {i \in Identities : bindings[i] # NoCode \/ \E e \in entries : e.who = i} IN
  /\ accountOf' = [i \in Identities |-> IF i \in known THEN AccountFor(i) ELSE accountOf[i]]
  /\ opened' = opened \cup {i \in known : accountOf[i] = None}
  /\ checkins' = checkins \cup
       {<<AccountFor(e.who), e.day>> : e \in {f \in entries : f.kind = "check_in"}}
  /\ asked' = {}
  /\ UNCHANGED <<mergedInto, entries, orders, bindings, owners>>

-----------------------------------------------------------------------------
PointsNext ==
  \/ \E i \in Identities :
       \/ OpenAccount(i)
       \/ \E d \in CheckInDays : CheckIn(i, d)
       \/ \E a \in Accounts : LinkIdentity(i, a)
       \/ \E c \in Codes : AskBind(i, c) \/ ApproveOwner(i, c) \/ AskSync(i, c)
  \/ \E a, b \in Accounts : MergeAccounts(a, b)
  \/ \E r \in OrderRefs :
       \/ \E a \in Accounts, points \in Prices : ReserveOrder(r, a, points)
       \/ \E status \in OrderStatus : ResolveOrder(r, status)
  \/ \E q \in asked :
       \/ Bind(q) \/ Unanswered(q)
       \/ \E n \in 0..MaxPaid : Answered(q, n)
       \/ \E rate \in Rates : Credit(q, rate)
  \/ RestartPoints

PointsSpec == PointsInit /\ [][PointsNext]_pointsVars

-----------------------------------------------------------------------------
(* Properties.                                                             *)

\* No sequence of orders, refunds, links and merges overdraws an account.
NoOverdraft == \A a \in Accounts : Balance(a) >= 0

\* Every order is debited once, to an identity of the account it belongs to
\* however often accounts are merged, and given back just when it is refunded.
OrdersBooked ==
  \A r \in OrderRefs :
    LET booked == {e \in entries : e.kind \in {"debit", "refund"} /\ e.ref = r}
        o == orders[r]
    IN IF o = NoOrder THEN booked = {}
       ELSE /\ accountOf[o.who] = o.account
            /\ booked = {[who |-> o.who, kind |-> "debit", ref |-> r, points |-> -o.points]}
                 \cup (IF o.status = "refunded"
                       THEN {[who |-> o.who, kind |-> "refund", ref |-> r, points |-> o.points]}
                       ELSE {})

\* Each paid invitee of a code is paid for once, whatever answers of the invite
\* service overtake one another and whoever of the account asks; and all of it
\* is in the account of the verified owner of the code, also after links and
\* merges: knowing a public code earns nothing.
OwnersPaidOnce ==
  /\ \A e, f \in entries :
       e.kind = "invite" /\ f.kind = "invite" /\ e # f =>
         e.code # f.code \/ e.upto <= f.from \/ f.upto <= e.from
  /\ \A e \in entries : e.kind = "invite" => OwnsCode(e.who, e.code)

\* Merging leaves no chain behind: the bounded walk always reaches the live
\* account, and a merged account keeps neither identities nor orders.
MergesFlat ==
  \A a \in Accounts : mergedInto[a] # None =>
    /\ mergedInto[mergedInto[a]] = None /\ mergedInto[a] \in opened
    /\ MembersOf(a) = {}
    /\ \A r \in OrderRefs : orders[r] # NoOrder => orders[r].account # a

\* One check-in per account and day: an account joined during the day does not
\* let its owner check in again through another identity.
CheckInOnce ==
  [][\A e \in entries' \ entries : e.kind = "check_in" =>
       ~ \E f \in entries : /\ f.kind = "check_in" /\ f.day = e.day
                            /\ accountOf'[f.who] = accountOf'[e.who]]_pointsVars
=============================================================================
