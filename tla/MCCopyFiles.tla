---------------------------- MODULE MCCopyFiles ----------------------------
EXTENDS CopyFiles

MCTargets == {<<1>>}
=============================================================================
