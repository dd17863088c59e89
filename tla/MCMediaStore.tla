---------------------------- MODULE MCMediaStore ----------------------------
EXTENDS MediaStore
=============================================================================
