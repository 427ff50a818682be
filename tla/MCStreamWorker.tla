---- MODULE MCStreamWorker ----
EXTENDS StreamWorker
====
