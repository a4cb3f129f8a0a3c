----------------------------- MODULE MCStores -----------------------------
(* Stores for TLC: deployments that reach every store, and every fallback. *)
EXTENDS Stores

CONSTANT u1

MCEarlier == <<[url |-> u1, source |-> u1, body |-> 0, tag |-> 0, expires |-> 1]>>
MCNever == 9
Env(driver, url) == [init |-> "env", driver |-> driver, url |-> url]
Db(driver, url)  == [init |-> "InitDB", driver |-> driver, url |-> url]

MCDeployment == {Env("memory", ""), Env("sqlite", ":memory:"), Env("", "sqlite"), Db("", "postgres")}
MCTtl == {0, 1}
Symmetry == Permutations(Client)
=============================================================================
