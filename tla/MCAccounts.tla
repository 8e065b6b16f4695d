----------------------------- MODULE MCAccounts -----------------------------
(* Small instances of Accounts for TLC. *)
EXTENDS Accounts, TLC

CONSTANTS ann, eb, EB

\* EB is eb in capitals.
MCLower(e) == IF e = EB THEN eb ELSE e

\* The handlers of one behaviour: every mix is explored on its own.
CONSTANT Mixes
VARIABLE mix

\* Roles change by adminUpdate only.
InMix(q) == q.kind \in mix \cup {"none"} /\ (q.kind = "update" => "role" \notin q.purpose)

MCInit == Init /\ mix \in Mixes
MCNext ==
    /\ Next /\ UNCHANGED mix
    /\ \A r \in Request : InMix(requests'[r])
MCSpec == MCInit /\ [][MCNext]_<<vars, mix>>

AllMixes ==
    {{"login", "adminLogin", "logout", "profile", "suspend"}, {"login", "logout", "profile", "remove"},
     {"changePassword", "profile"}, {"adminUpdate", "profile"}, {"update", "profile"},
     {"forgot", "reset", "profile"}, {"send", "verify", "forgot", "reset"},
     {"register", "send", "verify", "verifyEmail"}, {"register", "verifyEmail", "profile"},
     {"register", "adminCreate", "google", "apple", "social"}}

Symmetry == Permutations(Request) \cup Permutations(Code) \cup Permutations(Session)
=============================================================================
