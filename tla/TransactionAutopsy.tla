------------------------- MODULE TransactionAutopsy -------------------------
(***************************************************************************)
(* What a parsed Solana transaction says of the wallets in it: the token   *)
(* and native transfers and the token accounts created, which the parsed   *)
(* instructions state, and whether the whole is a trade, which the changes *)
(* of balance show whatever the programs are called.  An owner has one     *)
(* token account for a mint.                                               *)
(***************************************************************************)
EXTENDS Integers, Sequences, FiniteSets, FiniteSetsExt, SequencesExt

CONSTANTS
    Sol,    \* the native asset
    Fee,    \* the fee of a transaction
    Rent    \* what a new token account costs its payer

ASSUME AutopsyAssumption == {Fee, Rent} \subseteq Nat

\* A transaction: its instructions in order, each with an asset that moves from an
\* owner to an owner by an authority, or a token account that "from" pays for "to".
Instruction(kind, asset, from, to, by, amount) ==
    [kind |-> kind, asset |-> asset, from |-> from, to |-> to, by |-> by, amount |-> amount]

Steps(tx, kind) == {i \in DOMAIN tx.steps : tx.steps[i].kind = kind}
Moves(tx) == Steps(tx, "token") \cup Steps(tx, "native")

Owners(tx) == UNION {{tx.steps[i].from, tx.steps[i].to} : i \in DOMAIN tx.steps}
Assets(tx) == {tx.steps[i].asset : i \in Steps(tx, "token")}

\* The addresses a transaction names itself, and those it reaches through their
\* token accounts as well.
Named(tx) ==
    Range(tx.signers) \cup {tx.steps[i].by : i \in DOMAIN tx.steps}
        \cup UNION {{tx.steps[i].from, tx.steps[i].to} : i \in Steps(tx, "native") \cup Steps(tx, "ata")}

Parties(tx) == Named(tx) \cup Owners(tx)

\* owner_token_deltas
Gain(tx, w, asset) ==
    LET Amount(i) == tx.steps[i].amount
        Of(i) == tx.steps[i].asset = asset
    IN  MapThenSumSet(Amount, {i \in Moves(tx) : Of(i) /\ tx.steps[i].to = w})
        - MapThenSumSet(Amount, {i \in Moves(tx) : Of(i) /\ tx.steps[i].from = w})

\* _native_deltas: the fee and the rent of new token accounts included
NativeDelta(tx, w) ==
    Gain(tx, w, Sol)
        - (IF w = tx.signers[1] THEN Fee ELSE 0)
        - Rent * Cardinality({i \in Steps(tx, "ata") : tx.steps[i].from = w})

\* One asset for another: a token for a token, a token for the native asset, or the
\* native asset, beyond the fee, for a token.
Reciprocal(tx, w) ==
    LET in == {m \in Assets(tx) : Gain(tx, w, m) > 0}
        out == {m \in Assets(tx) : Gain(tx, w, m) < 0}
    IN  \/ in # {} /\ out # {}
        \/ out # {} /\ NativeDelta(tx, w) > 0
        \/ in # {} /\ NativeDelta(tx, w) < -Fee

\* A known program, or a parsed or logged swap.
Explicit(tx) == "market" \in tx.programs \/ Steps(tx, "swap") # {}

\* market_context: the balances may tell a trade as well.
MarketContext(tx) == Explicit(tx) \/ \E w \in Owners(tx) : Reciprocal(tx, w)

\* autopsy_transaction, of a transaction that did not fail
Autopsy(tx) ==
    [sig |-> tx.id, signers |-> Range(tx.signers), payer |-> tx.signers[1],
     market |-> MarketContext(tx), unknown |-> "unknown" \in tx.programs,
     tokens |-> {tx.steps[i] : i \in Steps(tx, "token")},
     natives |-> {tx.steps[i] : i \in Steps(tx, "native")},
     atas |-> {tx.steps[i] : i \in Steps(tx, "ata")}]

\* classify_address_record, of the account record the chain keeps of an address
Classify(record) ==
    CASE record = "none" -> "UNRESOLVED"
      [] record = "program" -> "PROGRAM_ACCOUNT"
      [] record = "system" -> "WALLET_LIKE"
      [] record = "token" -> "TOKEN_ACCOUNT_NOT_WALLET"
      [] record = "market" -> "KNOWN_INFRASTRUCTURE"
      [] OTHER -> "PROGRAM_PDA_OR_POOL_CANDIDATE"
=============================================================================
