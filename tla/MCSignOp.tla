------------------------------ MODULE MCSignOp ------------------------------
(* Instances of SignOp for TLC: two calls on an index with one image below *)
(* it and a tag; the sets of inputs pick the interactions a run is about.  *)
EXTENDS SignProperties, TLC

CONSTANTS c1, c2, k1, k2, index, image, latest, plain, annotated

MCPreorder == (index :> <<index, image>>) @@ (image :> <<image>>)

Config(key, ref, mode, anns, recursive, upload) ==
    [key |-> key, ref |-> ref, mode |-> mode, annotations |-> anns,
     recursive |-> recursive, tlogUpload |-> upload]

(* oci-1-1: keys and payloads that agree and that differ, the whole index  *)
(* and its root only, by tag and by digest, with and without the log.      *)
ReferrerInputs ==
    {Config(k1, index, OCI11, plain, TRUE, TRUE),
     Config(k1, latest, OCI11, annotated, FALSE, FALSE),
     Config(Keyless, latest, OCI11, plain, TRUE, TRUE),
     Config(k2, index, OCI11, plain, FALSE, FALSE)}

LegacyInputs ==
    {Config(k1, index, Legacy, plain, TRUE, FALSE),
     Config(k2, index, Legacy, plain, FALSE, FALSE),
     Config(k1, index, Legacy, annotated, FALSE, TRUE)}

(* Both modes on one repository: an oci-1-1 write copies what it finds in  *)
(* the .sig image.                                                         *)
MixedInputs ==
    {Config(k1, latest, Legacy, plain, TRUE, FALSE),
     Config(k2, index, Legacy, annotated, FALSE, FALSE),
     Config(k2, latest, OCI11, plain, FALSE, FALSE),
     Config(k1, index, OCI11, plain, TRUE, TRUE)}

TwoKeys   == {Config(k, index, OCI11, plain, FALSE, FALSE) : k \in {k1, k2}}
TwoKeysLegacy == {Config(k, index, Legacy, plain, FALSE, FALSE) : k \in {k1, k2}}
ByTag     == {Config(k1, latest, OCI11, plain, FALSE, FALSE)}
=============================================================================
