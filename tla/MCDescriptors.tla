--------------------------- MODULE MCDescriptors ----------------------------
EXTENDS Descriptors
Addresses == {<<16, 32, 48, 64, 255, 255, 255, 255>>}
=============================================================================
