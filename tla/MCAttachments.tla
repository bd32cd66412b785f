--------------------------- MODULE MCAttachments ---------------------------
(* Attachments with bytes of each kind, and two versions that have text.   *)
EXTENDS Attachments, TLC

CONSTANTS text1, text2, scan, blank, image, legacy, other

MCKind ==
    text1 :> "text" @@ text2 :> "text" @@ scan :> "scan" @@ blank :> "blank"
    @@ image :> "image" @@ legacy :> "legacy" @@ other :> "other"

Interchangeable == Permutations(Passes) \cup Permutations({text1, text2})
=============================================================================
