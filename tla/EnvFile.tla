------------------------------- MODULE EnvFile -------------------------------
(***************************************************************************)
(* The .env file that carries the login from one run of the backend to the *)
(* next: which lines write_env_atomic (bilibili/auth.py) rewrites, and     *)
(* what Settings (config.py) reads back from them.                         *)
(*                                                                         *)
(* A line is its key and its value; "other" stands for every line that     *)
(* sets none of the three cookies: comments, blanks, other settings.       *)
(***************************************************************************)
EXTENDS Sequences, Naturals

OwnedKeys == {"SESSDATA", "BILI_JCT", "BUVID3"}

LineOf(key, val) == [key |-> key, val |-> val]

Keys(lines) == {lines[i].key : i \in DOMAIN lines}

(* Every line of a key in updates is rewritten, duplicates too.            *)
Rewritten(lines, updates) ==
  [i \in DOMAIN lines |->
    IF lines[i].key \in DOMAIN updates
      THEN LineOf(lines[i].key, updates[lines[i].key]) ELSE lines[i]]

AddMissing(lines, updates, key) ==
  IF key \in DOMAIN updates /\ key \notin Keys(lines)
    THEN Append(lines, LineOf(key, updates[key])) ELSE lines

_update_owned_lines(lines, updates) ==
  AddMissing(
    AddMissing(
      AddMissing(Rewritten(lines, updates), updates, "SESSDATA"),
      updates, "BILI_JCT"),
    updates, "BUVID3")

(* The reader takes the last line of a key.                                *)
ReadKey(lines, key, default) ==
  IF key \notin Keys(lines) THEN default
  ELSE lines[CHOOSE i \in DOMAIN lines :
               /\ lines[i].key = key
               /\ \A j \in DOMAIN lines : lines[j].key = key => j <= i].val

(* The lines that set none of the three cookies stay what and where they   *)
(* are, and no such line is added.                                         *)
OthersKept(old, new) ==
  /\ DOMAIN old \subseteq DOMAIN new
  /\ \A i \in DOMAIN new :
       \/ new[i].key \in OwnedKeys /\ (i \in DOMAIN old => old[i].key \in OwnedKeys)
       \/ i \in DOMAIN old /\ new[i] = old[i]

=============================================================================
