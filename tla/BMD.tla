-------------------------------- MODULE BMD --------------------------------
(***************************************************************************)
(* Bucket metadata (ais/bucketmeta.go, core/meta/bmd.go): a version and    *)
(* the present buckets, each with its props.  Of the props the model keeps *)
(* the BID (which incarnation of the name this is) and one opaque value    *)
(* that stands for everything set-props and make-n-copies may change.      *)
(***************************************************************************)
EXTENDS Naturals

\* bmd.Get, the `present` result
Present(bmd, b) == b \in DOMAIN bmd.bcks

\* m.Add, m.Set: the buckets with b's props replaced (or b added)
WithProps(bcks, b, p) == [x \in DOMAIN bcks \cup {b} |-> IF x = b THEN p ELSE bcks[x]]

\* bucketMD.add of an absent bucket: the BID comes from the version, which
\* starts from 1 in a brand-new cluster, and the version goes up
add(bmd, b, val) ==
    LET v == IF bmd.ver = 0 THEN 1 ELSE bmd.ver
    IN  [ver |-> v + 1, bcks |-> WithProps(bmd.bcks, b, [bid |-> v, val |-> val])]

\* mutant: the bucket goes and the version stays
delSameVersion(bmd, b) ==
    [ver |-> bmd.ver, bcks |-> [x \in DOMAIN bmd.bcks \ {b} |-> bmd.bcks[x]]]

\* bucketMD.del of a present bucket
del(bmd, b) ==
    [ver |-> bmd.ver + 1, bcks |-> [x \in DOMAIN bmd.bcks \ {b} |-> bmd.bcks[x]]]

\* bucketMD.set of a present bucket: new props, same BID
set(bmd, b, val) ==
    [ver |-> bmd.ver + 1,
     bcks |-> WithProps(bmd.bcks, b, [bid |-> bmd.bcks[b].bid, val |-> val])]
=============================================================================
