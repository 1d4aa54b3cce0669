-------------------------- MODULE MCSettingsPages --------------------------
EXTENDS SettingsPages, TLC
CONSTANTS p1, p2
ProjectSymmetry == Permutations({p1, p2})
=============================================================================
