---------------------------- MODULE MCFileBuffer ----------------------------
EXTENDS FileBuffer
=============================================================================
