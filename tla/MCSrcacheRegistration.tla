----------------------- MODULE MCSrcacheRegistration -----------------------
(* Files of up to two http blocks, loaded up to four times; three places    *)
(* for cycles, so that one is used again.                                   *)
EXTENDS SrcacheRegistration

MCBlocks == { <<>>, <<"other", "request">> }

MCFiles ==
    { <<>> } \cup { <<b>> : b \in MCBlocks } \cup { <<b, c>> : b, c \in MCBlocks }

MCAddresses == {"init", "a", "b"}
MCWorkers == {"w"}
=============================================================================
