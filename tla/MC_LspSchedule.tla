--------------------------- MODULE MC_LspSchedule ---------------------------
EXTENDS LspScheduleInv, FiniteSets

\* Two requests are combined with one new revision, one request with two.
Bounded == Cardinality(asked) > 1 => revision <= 1
=============================================================================
