---------------------------- MODULE MCHotReload ----------------------------
(***************************************************************************)
(* A small instance of HotReload: contents of each kind in two versions, a *)
(* token that is too short, secrets with the key token instead of hcloud,  *)
(* without Robot, and with an empty user.                                  *)
(***************************************************************************)
EXTENDS HotReload

Secret(h, t, u, p) ==
    [f \in Files |-> CASE f = "hcloud" -> h [] f = "token" -> t [] f = "robotuser" -> u [] OTHER -> p]

SomeSecrets ==
    {Secret("one", Missing, "one", "one"), Secret("two", Missing, "one", "two"),
     Secret(Missing, "two", "two", "one"), Secret("short", "one", "two", "two"),
     Secret("one", Missing, Empty, "one"), Secret(Missing, Missing, Missing, Missing)}
=============================================================================
