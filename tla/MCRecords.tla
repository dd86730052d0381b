------------------------------ MODULE MCRecords ------------------------------
(* Three requests on one repository with two collections. *)
EXTENDS Records, TLC

CONSTANTS t1, t2, t3, note1, note2

Wr(a, c, r, x) == [action |-> a, collection |-> c, rkey |-> r, value |-> x]

Creates == {[nsid |-> "createRecord", own |-> TRUE, collection |-> 1, rkey |-> r, record |-> x] :
              r \in {{}, {1}, {BadName}}, x \in {note1}}
           \cup {[nsid |-> "createRecord", own |-> TRUE, collection |-> 1, rkey |-> {}, record |-> x] :
              x \in {Null, BadRecord}}
           \cup {[nsid |-> "createRecord", own |-> FALSE, collection |-> 1, rkey |-> {}, record |-> note1]}

Puts == {[nsid |-> "putRecord", own |-> TRUE, collection |-> 1, rkey |-> {1}, record |-> x] :
              x \in {note2, Null, BadRecord}}
        \cup {[nsid |-> "putRecord", own |-> FALSE, collection |-> 1, rkey |-> {1}, record |-> note2]}

Deletes == {[nsid |-> "deleteRecord", own |-> o, collection |-> 1, rkey |-> {1}] : o \in BOOLEAN}

Batches == {[nsid |-> "applyWrites", own |-> TRUE, writes |-> ws] : ws \in
              {<<>>,
               <<Wr("create", 1, {}, note1), Wr("create", 1, {}, note2)>>,
               <<Wr("update", 1, {1}, note2), Wr("delete", 1, {1}, Null)>>,
               <<Wr("delete", 1, {1}, Null), Wr("create", 1, {1}, BadRecord)>>,
               <<Wr("create", 1, {2}, note1), Wr("unknown", 1, {1}, note1)>>,
               <<Wr("create", 2, {1}, note1), Wr("delete", BadName, {1}, note1)>>}}
           \cup {[nsid |-> "applyWrites", own |-> FALSE, writes |-> <<>>]}

Reads == {[nsid |-> n, repo |-> p, collection |-> 1, rkey |-> {1}] :
             n \in {"getRecord", "describeRepo"}, p \in {"did", "handle", "unknown"}}
         \cup {[nsid |-> n, repo |-> "did"] : n \in {"getRepo", "getLatestCommit"}}

Lists == {[nsid |-> "listRecords", collection |-> 1, limit |-> l, cursor |-> {}] :
             l \in {{}, {0}, {1}, {9}}}
         \cup {[nsid |-> "listBlobs", limit |-> l, cursor |-> {}] : l \in {{}, {0}}}

Uploads == {[nsid |-> "uploadBlob", blob |-> b, size |-> "fits"] : b \in Blobs}
           \cup {[nsid |-> "uploadBlob", blob |-> 1, size |-> s] : s \in {"empty", "over"}}

Gets == {[nsid |-> "getBlob", blob |-> 1]}

Good(r) == r.own /\ (r.nsid = "applyWrites" \/ (BadName \notin r.rkey))
               /\ (r.nsid \in {"createRecord", "putRecord"} => r.record \notin {Null, BadRecord})

Writes == Creates \cup Puts \cup Deletes \cup Batches

Mix(a, b, c) == [t \in {t1, t2, t3} |-> IF t = t1 THEN a ELSE IF t = t2 THEN b ELSE c]

\* Each request alone; writes that race, with a read; a listing, or a read of the
\* whole repository, among writes; blobs.  Where three requests race the limits are
\* the ones that no clamping turns into another, and every repository is known.
MCMixes ==
    {Mix(Writes \cup Reads \cup Lists \cup Uploads \cup Gets, {}, {}),
     Mix({r \in Writes : Good(r)}, {r \in Writes : Good(r)}, {}),
     Mix({r \in Puts \cup Creates : Good(r) /\ r.rkey = {1}}, {r \in Deletes : Good(r)},
         {r \in Deletes \cup Reads : \/ r.nsid = "getRecord" /\ r.repo # "unknown"
                                     \/ r.nsid = "deleteRecord" /\ Good(r)}),
     Mix({r \in Creates : Good(r)}, {r \in Deletes : Good(r)},
         {r \in Lists : r.nsid = "listRecords" /\ r.limit \in {{}, {1}}}),
     Mix({r \in Batches : Good(r)}, {}, Reads),
     Mix(Uploads, Uploads, Gets \cup {r \in Lists : r.nsid = "listBlobs"})}

MCSeeds == {[k \in Keys |-> NoRecord],
            [k \in Keys |-> IF k = <<1, 1>> THEN note1 ELSE NoRecord],
            [k \in Keys |-> IF k \in {<<1, 2>>, <<2, 1>>} THEN note1 ELSE NoRecord],
            [k \in Keys |-> IF k[1] = 1 THEN note1 ELSE NoRecord]}

==============================================================================
