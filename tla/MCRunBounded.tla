---------------------------- MODULE MCRunBounded ----------------------------
EXTENDS RunBounded

\* Sequential, bounded by the setting, bounded by the work, and automatic.
MCSettings == {-1, 0, 2, 3}
=============================================================================
