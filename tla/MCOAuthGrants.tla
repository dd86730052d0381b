----------------------------- MODULE MCOAuthGrants ----------------------------
(* Two handlers; scopes are `atproto` alone or with one more.               *)
EXTENDS OAuthGrants, TLC

CONSTANTS atproto, generic

MCScopes == {{atproto}, {atproto, generic}}

Symmetry == Permutations(Handlers) \cup Permutations(Codes) \cup Permutations(Tokens)
              \cup Permutations(Sessions) \cup Permutations(Keys) \cup Permutations(Clients)

=============================================================================
