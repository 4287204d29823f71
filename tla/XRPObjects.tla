----------------------------- MODULE XRPObjects -----------------------------
(***************************************************************************)
(* The transactors that move XRP between accounts or lock it in an object: *)
(* direct payments, escrows, checks and payment channels.  A view has      *)
(* fields balance, ownerCount and object, one object of each kind at most. *)
(* Accounts exist and keep existing; amounts are XRP.                      *)
(***************************************************************************)
EXTENDS Integers, Sequences, FiniteSets, FiniteSetsExt

CONSTANTS
    Account,
    None,
    Reserve, Increment,     \* drops: fees().accountReserve(0), and per object
    SettleDelay,            \* of every channel
    TimeWidth,              \* times are unsigned integers below this: 2^32
    lsfDepositAuth,         \* accounts that require authorization
    depositPreauth          \* <<d, a>>: d has authorized a

Kind == {"escrow", "check", "channel"}

\* sfBalance is what a channel has paid out of sfAmount; a time 0 is absent.
Object == [owner : Account, dest : Account, amount : Nat, balance : Nat, condition : BOOLEAN,
           finishAfter : Nat, cancelAfter : Nat, expiration : Nat]
Plain(owner, dest) ==
    [owner |-> owner, dest |-> dest, amount |-> 0, balance |-> 0, condition |-> FALSE,
     finishAfter |-> 0, cancelAfter |-> 0, expiration |-> 0]

ASSUME XRPObjectsAssumption ==
    /\ IsFiniteSet(Account) /\ None \notin Object
    /\ Reserve \in Nat /\ Increment \in Nat /\ SettleDelay \in Nat /\ TimeWidth \in Nat \ {0}

accountReserve(n) == Reserve + n * Increment
after(now, mark) == now > mark
hasExpired(now, mark) == mark # 0 /\ now >= mark
xrpLiquid(v, a, adj) == Max({0, v.balance[a] - accountReserve(Max({0, v.ownerCount[a] + adj}))})

\* An account that requires authorization has given it, or acts itself.
Authorized(d, a) == d \notin lsfDepositAuth \/ a = d \/ <<d, a>> \in depositPreauth

Destination(t) == Head(t.parties)

\* The kind of object that a transaction is about, if it is about one.
kindOf(t) ==
    CASE t.type \in {"ttESCROW_CREATE", "ttESCROW_FINISH", "ttESCROW_CANCEL"} -> "escrow"
      [] t.type \in {"ttCHECK_CREATE", "ttCHECK_CASH", "ttCHECK_CANCEL"} -> "check"
      [] OTHER -> "channel"
CreatesObject == {"ttESCROW_CREATE", "ttCHECK_CREATE", "ttPAYCHAN_CREATE"}

\* What doApply returns, and the view it leaves.
Outcome(ter, v) == [ter |-> ter, view |-> v]
Fails(ter, v) == {Outcome(ter, v)}
tes(v) == {Outcome("tesSUCCESS", v)}

\* A new object is listed in directories, either of which may be full.
Created(v, kind, o) ==
    LET inserted == [v EXCEPT !.object[kind] = o]
    IN  Fails("tec", inserted) \cup
        tes([inserted EXCEPT !.ownerCount[o.owner] = @ + 1])
\* (As if the count were left alone.)
RemovedUncounted(v, kind) == [v EXCEPT !.object[kind] = None]
\* An object goes, and with it one from the count of its owner.
Removed(v, kind) ==
    [v EXCEPT !.ownerCount[v.object[kind].owner] = @ - 1, !.object[kind] = None]
Credit(v, a, amount) == [v EXCEPT !.balance[a] = @ + amount]

----------------------------------------------------------------------------
(* Payment.                                                                *)

\* The fee is already paid: the prior balance is the one before.
Payment(v, t) ==
    LET prior == v.balance[t.account] + t.fee
        due == Max({accountReserve(v.ownerCount[t.account]), t.fee})
        wedged == t.amount <= accountReserve(0) /\ v.balance[Destination(t)] <= accountReserve(0)
    IN  IF prior < t.amount + due \/ ~(Authorized(Destination(t), t.account) \/ wedged)
        THEN Fails("tec", v)
        ELSE tes(Credit(Credit(v, t.account, -t.amount), Destination(t), t.amount))

----------------------------------------------------------------------------
(* Escrows.                                                                *)

EscrowCreate(v, t, now) ==
    LET reserve == accountReserve(v.ownerCount[t.account] + 1)
        late(mark) == mark # 0 /\ after(now, mark)
    IN  IF late(t.cancelAfter) \/ late(t.finishAfter) \/ v.balance[t.account] < reserve + t.amount
        THEN Fails("tec", v)
        ELSE {[o EXCEPT !.view = IF o.ter = "tec" THEN @ ELSE Credit(@, t.account, -t.amount)] :
                o \in Created(v, "escrow", [Plain(t.account, Destination(t)) EXCEPT
                        !.amount = t.amount, !.condition = t.condition,
                        !.finishAfter = t.finishAfter, !.cancelAfter = t.cancelAfter])}

\* (As if anybody could pay into the destination.)
EscrowFinishByAnyone(v, t, now) ==
    LET e == v.object["escrow"]
    IN  IF \/ e = None
           \/ e.finishAfter # 0 /\ ~after(now, e.finishAfter)
           \/ e.cancelAfter # 0 /\ after(now, e.cancelAfter)
           \/ e.condition # t.condition
        THEN Fails("tec", v)
        ELSE tes(Removed(Credit(v, e.dest, e.amount), "escrow"))

EscrowFinish(v, t, now) ==
    LET e == v.object["escrow"]
    IN  IF \/ e = None
           \/ e.finishAfter # 0 /\ ~after(now, e.finishAfter)
           \/ e.cancelAfter # 0 /\ after(now, e.cancelAfter)
           \/ e.condition # t.condition
           \/ ~Authorized(e.dest, t.account)
        THEN Fails("tec", v)
        ELSE tes(Removed(Credit(v, e.dest, e.amount), "escrow"))

EscrowCancel(v, t, now) ==
    LET e == v.object["escrow"]
    IN  IF e = None \/ e.cancelAfter = 0 \/ ~after(now, e.cancelAfter)
        THEN Fails("tec", v)
        ELSE tes(Removed(Credit(v, e.owner, e.amount), "escrow"))

----------------------------------------------------------------------------
(* Checks.                                                                 *)

CreateCheck_preclaim(v, t, now) ==
    IF hasExpired(now, t.expiration) THEN "tecEXPIRED" ELSE "tesSUCCESS"

CreateCheck(v, t) ==
    IF v.balance[t.account] + t.fee < accountReserve(v.ownerCount[t.account] + 1)
    THEN Fails("tec", v)
    ELSE Created(v, "check", [Plain(t.account, Destination(t)) EXCEPT
                    !.amount = t.amount, !.expiration = t.expiration])

\* The amount asked for is sfAmount, or at least sfDeliverMin.
CashCheck_preclaim(v, t, now) ==
    LET c == v.object["check"]
    IN  IF c = None \/ c.dest # t.account THEN "tec"
        ELSE IF hasExpired(now, c.expiration) THEN "tecEXPIRED"
        ELSE IF t.amount > c.amount \/ t.amount > xrpLiquid(v, c.owner, 0) + Increment
        THEN "tec" ELSE "tesSUCCESS"

CashCheck(v, t) ==
    LET c == v.object["check"]
        srcLiquid == xrpLiquid(v, c.owner, -1)
        xrpDeliver == IF t.deliverMin THEN Max({t.amount, Min({c.amount, srcLiquid})})
                      ELSE t.amount
    IN  IF c = None \/ srcLiquid < xrpDeliver THEN Fails("tec", v)
        ELSE tes(Removed(Credit(Credit(v, c.owner, -xrpDeliver), c.dest, xrpDeliver), "check"))

CancelCheck_preclaim(v, t, now) ==
    LET c == v.object["check"]
    IN  IF c = None \/ (~hasExpired(now, c.expiration) /\ t.account \notin {c.owner, c.dest})
        THEN "tec" ELSE "tesSUCCESS"

CancelCheck(v, t) ==
    IF v.object["check"] = None THEN Fails("tec", v) ELSE tes(Removed(v, "check"))
----------------------------------------------------------------------------
(* Payment channels.                                                       *)

PayChanCreate_preclaim(v, t, now) ==
    IF v.balance[t.account] < accountReserve(v.ownerCount[t.account] + 1) + t.amount
    THEN "tec" ELSE "tesSUCCESS"

PayChanCreate(v, t) ==
    {[o EXCEPT !.view = IF o.ter = "tec" THEN @ ELSE Credit(@, t.account, -t.amount)] :
        o \in Created(v, "channel", [Plain(t.account, Destination(t)) EXCEPT
                    !.amount = t.amount, !.cancelAfter = t.cancelAfter])}

\* (As if the owner got the whole deposit back, what was claimed included.)
closeChannelWhole(v) ==
    LET c == v.object["channel"]
    IN  tes(Removed(Credit(v, c.owner, c.amount), "channel"))

closeChannel(v) ==
    LET c == v.object["channel"]
    IN  tes(Removed(Credit(v, c.owner, c.amount - c.balance), "channel"))

ChannelOver(c, now) == hasExpired(now, c.cancelAfter) \/ hasExpired(now, c.expiration)
settleExpiration(now) == (now + SettleDelay) % TimeWidth

\* Adds to the deposit; may set a time to close, if it leaves the settle delay.
PayChanFund(v, t, now) ==
    LET c == v.object["channel"]
        minExpiration == IF c.expiration # 0 THEN Min({c.expiration, settleExpiration(now)})
                         ELSE settleExpiration(now)
        extended == IF t.expiration = 0 THEN v
                    ELSE [v EXCEPT !.object["channel"].expiration = t.expiration]
    IN  IF c = None THEN Fails("tec", v)
        ELSE IF ChannelOver(c, now) THEN closeChannel(v)
        ELSE IF c.owner # t.account THEN Fails("tec", v)
        ELSE IF t.expiration # 0 /\ t.expiration < minExpiration THEN Fails("tem", v)
        ELSE IF v.balance[t.account] < accountReserve(v.ownerCount[t.account]) + t.amount
        THEN Fails("tec", extended)
        ELSE tes([Credit(extended, t.account, -t.amount) EXCEPT
                    !.object["channel"].amount = @ + t.amount])

\* sfBalance of a claim: the total that the channel shall have paid.
Claimed(v, c, t) ==
    [Credit(v, c.dest, t.balance - c.balance) EXCEPT !.object["channel"].balance = t.balance]

\* (As if the owner closed the channel at once.)
CloseAtOnce(v, c, t, now) == closeChannel(v)

\* tfClose: at once if the receiver asks or nothing is left, else after the delay.
Close(v, c, t, now) ==
    IF c.dest = t.account \/ v.object["channel"].balance = c.amount THEN closeChannel(v)
    ELSE IF c.expiration = 0 \/ c.expiration > settleExpiration(now)
    THEN tes([v EXCEPT !.object["channel"].expiration = settleExpiration(now)])
    ELSE tes(v)

PayChanClaim(v, t, now) ==
    LET c == v.object["channel"]
        paid == IF t.balance = 0 THEN v ELSE Claimed(v, c, t)
    IN  IF c = None THEN Fails("tec", v)
        ELSE IF ChannelOver(c, now) THEN closeChannel(v)
        ELSE IF t.account \notin {c.owner, c.dest} THEN Fails("tec", v)
        ELSE IF t.balance # 0 /\ t.account = c.dest /\ ~t.signature THEN Fails("tem", v)
        ELSE IF t.balance # 0 /\ \/ t.balance > c.amount \/ t.balance <= c.balance
                                 \/ ~Authorized(c.dest, t.account)
        THEN Fails("tec", v)
        ELSE IF t.flag = "tfRenew" /\ c.owner # t.account THEN Fails("tec", paid)
        ELSE CASE t.flag = "tfRenew" -> tes([paid EXCEPT !.object["channel"].expiration = 0])
               [] t.flag = "tfClose" -> Close(paid, c, t, now)
               [] OTHER -> tes(paid)

----------------------------------------------------------------------------
(* invoke_preclaim and invoke_apply of these transactors.                  *)

MovesXRP(t) ==
    \/ t.type = "ttPAYMENT" /\ ~t.bRipple
    \/ t.type \in {"ttESCROW_CREATE", "ttESCROW_FINISH", "ttESCROW_CANCEL",
                   "ttCHECK_CREATE", "ttCHECK_CASH", "ttCHECK_CANCEL",
                   "ttPAYCHAN_CREATE", "ttPAYCHAN_FUND", "ttPAYCHAN_CLAIM"}

preclaim(v, t, now) ==
    CASE t.type = "ttCHECK_CREATE" -> CreateCheck_preclaim(v, t, now)
      [] t.type = "ttCHECK_CASH" -> CashCheck_preclaim(v, t, now)
      [] t.type = "ttCHECK_CANCEL" -> CancelCheck_preclaim(v, t, now)
      [] t.type = "ttPAYCHAN_CREATE" -> PayChanCreate_preclaim(v, t, now)
      [] OTHER -> "tesSUCCESS"

doApply(v, t, now) ==
    CASE t.type = "ttPAYMENT" -> Payment(v, t)
      [] t.type = "ttESCROW_CREATE" -> EscrowCreate(v, t, now)
      [] t.type = "ttESCROW_FINISH" -> EscrowFinish(v, t, now)
      [] t.type = "ttESCROW_CANCEL" -> EscrowCancel(v, t, now)
      [] t.type = "ttCHECK_CREATE" -> CreateCheck(v, t)
      [] t.type = "ttCHECK_CASH" -> CashCheck(v, t)
      [] t.type = "ttCHECK_CANCEL" -> CancelCheck(v, t)
      [] t.type = "ttPAYCHAN_CREATE" -> PayChanCreate(v, t)
      [] t.type = "ttPAYCHAN_FUND" -> PayChanFund(v, t, now)
      [] t.type = "ttPAYCHAN_CLAIM" -> PayChanClaim(v, t, now)

----------------------------------------------------------------------------
(* What a view holds.                                                      *)

\* Drops that an object keeps from every account; a check keeps none.
Held(v, kind) ==
    LET o == v.object[kind] IN IF o = None \/ kind = "check" THEN 0 ELSE o.amount - o.balance
=============================================================================
