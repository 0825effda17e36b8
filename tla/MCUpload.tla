------------------------------ MODULE MCUpload ------------------------------
\* Uploads of up to 8 bytes in chunks of up to 4, with any failures, with
\* none that leaves a handler behind, and with lost answers alone.
EXTENDS Upload

MCLengths == 1..8
MCChunkSizes == 1..4
MCScenarios == {AllEvents, {"lostAnswer", "lostLast", "resetLost"}, {"lostAnswer"}}
=============================================================================
