----------------------------- MODULE MCDownload -----------------------------
\* Sources of up to 5 bytes in chunks of up to 3, with any failures and with
\* lost and late reads alone.
EXTENDS Download

MCChunkSizes == 1..3
MCScenarios == {AllEvents, {"lostAnswer", "late"}}
=============================================================================
