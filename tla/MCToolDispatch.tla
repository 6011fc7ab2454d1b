--------------------------- MODULE MCToolDispatch ---------------------------
(* Instances of ToolDispatch: three tools, of which lsp has no handler, two *)
(* roles, and chains set up in code or from the configuration.              *)
EXTENDS ToolDispatch, TLC

CONSTANTS reviewer, manager, plain, broken, destructive, outside, ignored,
          unresolvable

MCRoleTools == (reviewer :> {"bash", "read", "lsp"}) @@ (manager :> {"read"})

\* The user is asked, then a hook of the user writes in the dict, and only then
\* come the other built-in hooks, and one that returns another dict.
MCChain == << "confirm_prompt", "custom", "blocklist", "path_guard",
              "gitignore_guard", "rewriter" >>

MCHooksTable == "custom" :> [tools |-> {"bash", "read"}, failOpen |-> TRUE]

Returning(to) == [kind |-> "modify", to |-> to, left |-> AsGiven]

Writing(verdict, left) == [verdict EXCEPT !.left = left]

\* A permitted call, one outside the reviewer's and the manager's tools or
\* for the blocklist to stop, and one for path_guard.
MCWritten == {[name |-> "bash", args |-> plain], [name |-> "bash", args |-> destructive],
              [name |-> "read", args |-> outside]}

MCUserVerdicts ==
  [hook \in DOMAIN MCChain |->
     CASE MCChain[hook] = "custom" ->
            {Allow, Deny, Raise, Returning(NoTarget)}
              \cup {Writing(v, c) : v \in {Allow, Raise, Returning(AsGiven)},
                                    c \in MCWritten}
       [] MCChain[hook] = "rewriter" ->
            {Allow} \cup {Returning(to) : to \in Call \cup {NoTarget}}
       [] OTHER -> {}]

=============================================================================
