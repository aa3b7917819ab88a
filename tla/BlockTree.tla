------------------------------ MODULE BlockTree ------------------------------
(***************************************************************************)
(* The blocks the node can meet, as data: the tree of headers, the work    *)
(* they carry and what each block does to the set of unspent coins.  A     *)
(* block is a model value standing for its hash; only what the decisions   *)
(* of Chain and ChainDB depend on is kept of it.                           *)
(***************************************************************************)
EXTENDS Integers

CONSTANTS
    Block,      \* hashes of the blocks whose header passes add_header's checks
    Genesis,    \* the genesis block
    NoBlock,    \* "no entry": None in the code
    Prev,       \* header.prev_blockhash (Genesis stands for its own parent)
    Height,     \* ChainEntry.height
    ChainWork,  \* ChainEntry.chainwork
    MaxHeight,  \* the largest height a u32 holds; the tallest block of an instance
    Coin,       \* outpoints
    Creates,    \* outpoints a block leaves unspent
    Spends,     \* outpoints of earlier blocks that a block spends
    Coinbase,   \* the outpoints that come from coinbase transactions
    Maturity,   \* consensus::COINBASE_MATURITY
    BadBody,    \* blocks that fail the non-contextual Chain::verify
    BadInputs,  \* blocks with a bad script, amount, lock or sigop count
    Utxo        \* for each block, the coins after replaying the chain that ends in it

Heights == 0 .. MaxHeight

\* An outpoint that is not in the coin database.
Absent == -1

\* A coin database: the height at which each outpoint was created, or Absent.
CoinMaps == [Coin -> Heights \cup {Absent}]

NoCoins == [c \in Coin |-> Absent]

------------------------------------------------------------------------------
(* What a block does to the coins.                                         *)

\* ChainDB::save_view of the view a verified block leaves behind: its inputs
\* are removed and its outputs stored with the height of the block.
ConnectCoins(b, coins) ==
    [c \in Coin |-> IF c \in Creates[b] THEN Height[b]
                    ELSE IF c \in Spends[b] THEN Absent
                    ELSE coins[c]]

\* Recording how old a spent coin is in place of where it was created.
UndoOfAge(b, coins) ==
    [c \in Coin |-> IF c \in Spends[b] THEN coins[c] - Height[b] ELSE Absent]

\* CoinView::spend_inputs: the coins a block spends, as they were when spent.
UndoOf(b, coins) ==
    [c \in Coin |-> IF c \in Spends[b] THEN coins[c] ELSE Absent]

\* Bringing a coin back with the height of the block that is being undone.
DisconnectCoinsWrongHeight(b, coins, undone) ==
    [c \in Coin |-> IF c \in Creates[b] THEN Absent
                    ELSE IF c \in Spends[b] THEN Height[b]
                    ELSE coins[c]]

\* ChainDB::disconnect_block: outputs removed, inputs restored from the undo coins.
DisconnectCoins(b, coins, undone) ==
    [c \in Coin |-> IF c \in Creates[b] THEN Absent
                    ELSE IF c \in Spends[b] THEN undone[c]
                    ELSE coins[c]]

------------------------------------------------------------------------------
(* When a block may be connected on top of some coins.                     *)

\* Chain::verify_duplicates: no transaction of the block overwrites a coin.
\* The code leaves it out at the heights where coinbases contain their height, so
\* that none comes again, and for the two blocks of the past that did overwrite
\* coins: these are not in Block.
NoDuplicates(b, coins) == \A c \in Creates[b] : coins[c] = Absent

\* CoinView::spend_inputs finds every input unspent.
InputsUnspent(b, coins) == \A c \in Spends[b] : coins[c] # Absent

\* TransactionExt::check_inputs: a coinbase output is spent only when mature.
CoinbaseMature(b, coins) ==
    \A c \in Spends[b] \cap Coinbase : Height[b] - coins[c] >= Maturity

\* Chain::verify: what can be checked without the coins.
VerifyBody(b) == b \notin BadBody

\* Chain::verify_context, after Chain::verify.
Acceptable(b, coins) ==
    /\ VerifyBody(b)
    /\ b \notin BadInputs
    /\ NoDuplicates(b, coins)
    /\ InputsUnspent(b, coins)
    /\ CoinbaseMature(b, coins)

------------------------------------------------------------------------------
(* The tree is a tree, and the coins of a chain are the fold of its blocks. *)

ASSUME TreeAssumption ==
    /\ MaxHeight \in Nat
    /\ Genesis \in Block
    /\ NoBlock \notin Block
    /\ Prev \in [Block -> Block]
    /\ Prev[Genesis] = Genesis
    /\ Height \in [Block -> Heights]
    /\ ChainWork \in [Block -> Nat]
    /\ Height[Genesis] = 0
    /\ \A b \in Block \ {Genesis} :
          /\ Height[b] = Height[Prev[b]] + 1
          /\ ChainWork[b] > ChainWork[Prev[b]]

ASSUME CoinAssumption ==
    /\ Maturity \in Nat
    /\ Creates \in [Block -> SUBSET Coin]
    /\ Spends \in [Block -> SUBSET Coin]
    /\ \A b \in Block : Creates[b] \cap Spends[b] = {}
    /\ Utxo \in [Block -> CoinMaps]
    /\ Utxo[Genesis] = NoCoins
    /\ \A b \in Block \ {Genesis} : Utxo[b] = ConnectCoins(b, Utxo[Prev[b]])
==============================================================================
