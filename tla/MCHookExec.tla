----------------------------- MODULE MCHookExec -----------------------------
(* Bounds for HookExec: three accounts, two hooks, chains of at most two   *)
(* hooks; or no hooks, and a few transactions in a row.                    *)
EXTENDS HookExec

CONSTANTS alice, bob, carol, h, k

\* The hooks fire on these types.
Hooked == {"ttPAYMENT", "ttINVOKE", "ttOFFER_CREATE", "ttESCROW_CANCEL", "ttPAYCHAN_CLAIM",
           "ttNFTOKEN_CREATE_OFFER", "ttNFTOKEN_ACCEPT_OFFER", "ttHOOK_SET"}
Slot(hash, collect) == [hash |-> hash, hookOn |-> Hooked, collect |-> collect]
MCChain == {<<>>, <<Slot(k, TRUE)>>, <<Blank, Slot(h, TRUE), Slot(h, FALSE)>>}

\* No objects, or one of each kind, bob's, and carol out of reserve.
MCStart ==
    {[balance |-> [a \in Account |-> 6], object |-> [kd \in Kind |-> None]],
     [balance |-> [a \in Account |-> CASE a = alice -> 6 [] a = bob -> 8 [] a = carol -> 3],
      object |-> [escrow |-> [Plain(bob, carol) EXCEPT !.amount = 2, !.finishAfter = 1, !.cancelAfter = 2],
                  check |-> [Plain(bob, alice) EXCEPT !.amount = 2, !.expiration = 3],
                  channel |-> [Plain(bob, carol) EXCEPT !.amount = 3, !.balance = 1, !.expiration = 4]]]}

\* A transaction, and variants of it.
Basic(type, account, parties, paid) ==
    [type |-> type, account |-> account, parties |-> parties, fee |-> paid,
     bRipple |-> FALSE, emitted |-> FALSE, callback |-> None, hookHash |-> h,
     tfStrongTSH |-> FALSE, open |-> FALSE, tapRETRY |-> FALSE, tapFAIL_HARD |-> FALSE,
     amount |-> 2, balance |-> 0, flag |-> "", signature |-> TRUE, condition |-> FALSE,
     finishAfter |-> 0, cancelAfter |-> 0, expiration |-> 0, deliverMin |-> FALSE]
Emitted(t) == [t EXCEPT !.emitted = TRUE, !.callback = bob]
Open(t) == [t EXCEPT !.open = TRUE]
OfAlice(type, parties, paid) == Basic(type, alice, parties, paid)

\* The transactions that hooks meet.
HookedTx ==
    {OfAlice("ttPAYMENT", <<bob>>, 3), OfAlice("ttINVOKE", <<bob>>, 7),
     Open([OfAlice("ttPAYMENT", <<bob>>, 4) EXCEPT !.bRipple = TRUE]),
     Emitted(OfAlice("ttPAYMENT", <<carol>>, 2)),
     [OfAlice("ttOFFER_CREATE", <<>>, 1) EXCEPT !.tapRETRY = TRUE],
     Open(OfAlice("ttNFTOKEN_CREATE_OFFER", <<bob, bob>>, 4)),
     OfAlice("ttNFTOKEN_ACCEPT_OFFER", <<carol, bob>>, 1),
     OfAlice("ttHOOK_SET", <<>>, 1)}

\* The lives of the three objects.
EscrowTx ==
    {[Basic("ttESCROW_CREATE", bob, <<carol>>, 1) EXCEPT
        !.amount = 1, !.finishAfter = 1, !.cancelAfter = c, !.condition = b] : c \in {0, 2}, b \in BOOLEAN}
    \cup {[Basic("ttESCROW_FINISH", a, <<>>, 1) EXCEPT !.condition = b] : a \in {alice, carol}, b \in BOOLEAN}
    \cup {[Basic("ttESCROW_CANCEL", alice, <<>>, 1) EXCEPT !.tapFAIL_HARD = TRUE]}
CheckTx ==
    {[Basic("ttCHECK_CREATE", bob, <<alice>>, 1) EXCEPT !.expiration = e] : e \in {0, 2}}
    \cup {[Basic("ttCHECK_CASH", alice, <<>>, 1) EXCEPT !.deliverMin = b, !.amount = 1] : b \in BOOLEAN}
    \cup {Basic("ttCHECK_CANCEL", a, <<>>, 1) : a \in {bob, carol}}
ChannelTx ==
    {[Basic("ttPAYCHAN_CREATE", bob, <<carol>>, p) EXCEPT 
        !.cancelAfter = IF p = 1 THEN 3 ELSE 0] : p \in {1, 5}}
    \cup {[Basic("ttPAYCHAN_CLAIM", carol, <<>>, 1) EXCEPT !.balance = 2, !.signature = FALSE]}
    \cup {[Basic("ttPAYCHAN_FUND", a, <<>>, 1) EXCEPT !.amount = 1, !.expiration = e] : a \in {bob, alice}, e \in {0, 3, 5}}
    \cup {[Basic("ttPAYCHAN_CLAIM", a, <<>>, 1) EXCEPT !.balance = n, !.flag = f] :
            a \in {bob, carol}, n \in {0, 2, 3}, f \in {"", "tfClose", "tfRenew"}}

MCTx == HookedTx \cup EscrowTx \cup CheckTx \cup ChannelTx
=============================================================================
