----------------------------- MODULE MCToolChanger -----------------------------
\* ToolChanger for TLC: no tool is special.
EXTENDS ToolChanger, TLC

ToolSymmetry == Permutations(Tools)

=============================================================================
