----------------------------- MODULE MCAuthFlow ------------------------------
(* Instance of AuthFlow for TLC.  The file at first is one copied from     *)
(* .env.example that a user completed by hand: each cookie occurs twice.   *)
EXTENDS AuthFlow, TLC

CONSTANT l1

HandEdited == <<LineOf("SESSDATA", Empty), LineOf("other", Empty),
                LineOf("BILI_JCT", l1), LineOf("SESSDATA", l1)>>

MCStartFiles == {HandEdited}

RequestSymmetry == Permutations(Requests)

=============================================================================
