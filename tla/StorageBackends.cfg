SPECIFICATION Spec
CONSTANTS
    Dids = {1, 2}
    Cids = {1, 2}
    Hashes = {1, 2}
    Handles = {h1, h2}
    Codes = {c1, c2}
    Sids = {s1, s2}
    MaxTime = 2
    MaxSeq = 3
    MaxUses = 2
    Domains = {"repo", "accounts", "invites", "blobs", "grants", "tokens"}
INVARIANTS
    SingleUse
    Conforms
    Indistinguishable
