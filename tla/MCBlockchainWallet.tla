------------------------- MODULE MCBlockchainWallet -------------------------
(* Small instances of BlockchainWallet for TLC.                            *)
EXTENDS BlockchainWallet, TLC

(* Requests, deposits and handlers differ only in name.                    *)
Symmetry == Permutations(Requests) \cup Permutations(Deposits) \cup Permutations(Handlers)
=============================================================================
