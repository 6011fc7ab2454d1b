-------------------------- MODULE MCAuthentication --------------------------
(* Model-checking instance of Authentication: Google, a provider with a key *)
(* and one that needs none, on files an earlier login or an editor wrote.   *)
EXTENDS Authentication, TLC

CONSTANTS l1, l2, groq, ollama

Entries(tables) == Readable(tables @@ Absent.tables)
Earlier(p, kind) == p :> Table(kind, Nobody, FALSE)

MCFiles == {Entries(Earlier(groq, "key") @@ Earlier(ollama, "incomplete")),
            Entries(Earlier(ollama, "invalid")),
            Entries(Earlier(ollama, "scalar"))}

MCEnvironment == (groq :> "empty") @@ [p \in Providers |-> "unset"]

=============================================================================
