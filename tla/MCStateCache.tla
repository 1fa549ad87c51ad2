---- MODULE MCStateCache ----
\* The shared cache with one or two keys and a few jobs.
EXTENDS StateCache
====
