--------------------------- MODULE MCClusterAudit ---------------------------
EXTENDS ClusterReports

\* A seed, wallets on either side of it in the order of addresses, an address
\* whose account varies, a pool, and a wallet far away.
A == 1
S == 2
B == 3
X == 4
Pool == 5
W == 6

Sends(from, to, amount) == Instruction("token", Target, from, to, from, amount)
Pays(from, to, amount) == Instruction("native", Sol, from, to, from, amount)
Plain(signers, steps) == [signers |-> signers, programs |-> {}, steps |-> steps]

MCPool == <<
    [signers |-> <<S>>, programs |-> {"market"},
     steps |-> <<Sends(S, Pool, 100), Pays(Pool, S, 9)>>],
    Plain(<<S>>, <<Sends(S, A, 100)>>),
    Plain(<<S>>, <<Instruction("ata", Target, S, A, S, 0), Sends(S, A, 100)>>),
    Plain(<<S>>, <<Sends(S, X, 100)>>),
    Plain(<<A>>, <<Sends(A, B, 100)>>),
    Plain(<<A>>, <<Sends(A, X, 100)>>),
    Plain(<<X>>, <<Sends(X, B, 100)>>),
    Plain(<<S, A>>, <<>>),
    Plain(<<A, B>>, <<>>),
    Plain(<<A>>, <<Pays(A, B, 1)>>),
    Plain(<<A>>, <<Pays(A, B, 9)>>),
    Plain(<<A>>, <<Instruction("ata", Target, A, X, A, 0)>>),
    Plain(<<S>>, <<Sends(A, B, 100)>>),
    Plain(<<X>>, <<Instruction("token", Target, A, X, X, 100)>>),
    [signers |-> <<A>>, programs |-> {"unknown"},
     steps |-> <<Sends(A, X, 100), Pays(X, A, 9)>>],
    [signers |-> <<A>>, programs |-> {"market"}, steps |-> <<Sends(A, Pool, 100)>>],
    Plain(<<S, B>>, <<Pays(B, S, 1)>>),
    Plain(<<X>>, <<Instruction("token", Target, S, B, X, 100)>>),
    [signers |-> <<B>>, programs |-> {"market"}, steps |-> <<Sends(B, Pool, 100)>>],
    Plain(<<S>>, <<Pays(S, B, 9)>>),
    Plain(<<A>>, <<Instruction("token", "other", A, B, A, 7)>>),
    Plain(<<X>>, <<Instruction("token", Target, A, B, X, 100), Pays(X, B, 9)>>),
    Plain(<<B>>, <<Sends(B, W, 100)>>)
>>

MCTemplates == [i \in DOMAIN MCPool |-> [id |-> i] @@ MCPool[i]]

MCOpening == A :> 0 @@ S :> 100 @@ B :> 0 @@ X :> 0 @@ Pool :> 1000 @@ W :> 0

\* Chains whose wallets can pay what they send and that hang together with the seed.
Paid(sigs) ==
    \A w \in DOMAIN MCOpening, n \in sigs :
        LET Amount(i) == Gain(MCTemplates[i], w, Target)
        IN  MCOpening[w] + MapThenSumSet(Amount, {i \in sigs : i <= n}) >= 0

Linked(sigs) ==
    \A part \in SUBSET sigs :
        (part # {} /\ \A i \in part : S \notin Parties(MCTemplates[i]))
            => \E i \in part, j \in sigs \ part :
                  Parties(MCTemplates[i]) \cap Parties(MCTemplates[j]) # {}

\* The account of X is a wallet, or unknown when a transaction has X in it.
MCRecord(x) ==
    [w \in DOMAIN MCOpening |-> IF w = X THEN x ELSE IF w = Pool THEN "market" ELSE "system"]

MCWorld(sigs, x) == [chain |-> sigs, record |-> MCRecord(x)]

MCWorlds ==
    UNION {{MCWorld(sigs, x) : x \in {"system"} \cup {"none" : i \in {j \in sigs : X \in Parties(MCTemplates[j])}}} :
              sigs \in {t \in {{i, j, k} : i, j, k \in DOMAIN MCTemplates} : Paid(t) /\ Linked(t)}}

\* The seed hands on to A, who opens an account for X; X, who may move what A holds,
\* moves it to B, and B hands it on.
MCDelegated == {MCWorld({2, 12, 22, 23}, "system")}

\* The seed hands on to A, and A to B.
MCHandedOn == {MCWorld({2, 5}, "system")}

MCConfigs ==
    {[deep |-> d, graphDepth |-> l[1], maxWallets |-> l[2]] : d \in BOOLEAN, l \in {<<1, 3>>, <<3, 4>>}}
=============================================================================
