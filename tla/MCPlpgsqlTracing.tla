-------------------------- MODULE MCPlpgsqlTracing --------------------------
(* PlpgsqlTracing: statement ids are only compared with each other.        *)
EXTENDS PlpgsqlTracing, TLC

StmtSymmetry == Permutations(StmtIds)
=============================================================================
