------------------------------- MODULE MCLegacy -------------------------------
(***************************************************************************)
(* A bucket of objects that do not carry the metadata the service writes   *)
(* today (test_drawings_endpoints.py puts such objects into the bucket).   *)
(***************************************************************************)
EXTENDS MCDrawings

CONSTANTS d3, d4, d5

WithoutModified ==
    [Stored(k1, a1, n1, d1) EXCEPT !.name = None, !.sha256 = None, !.modified = None]
WithoutCreated == [WithoutModified EXCEPT !.created = None]
WithoutMetadata == [WithoutCreated EXCEPT !.admin = None]
WithoutAdmin == [Stored(k1, a1, n1, d4) EXCEPT !.admin = None]
GarbledCreated == [Stored(k1, a1, n1, d5) EXCEPT !.created = Garbled, !.modified = None]

\* The other drawings are left for creations.
LegacyBucket ==
    [EmptyBucket EXCEPT ![d1] = WithoutModified, ![d2] = WithoutCreated,
                        ![d3] = WithoutMetadata, ![d4] = WithoutAdmin,
                        ![d5] = GarbledCreated]
===============================================================================
