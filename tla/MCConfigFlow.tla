---------------------------- MODULE MCConfigFlow ----------------------------
\* Profiles, options flows, ports and tokens are interchangeable.
EXTENDS ConfigFlow, TLC

Symmetry ==
  Permutations(Names) \cup Permutations(Editors) \cup
  Permutations(Ports) \cup Permutations(Tokens)
=============================================================================
