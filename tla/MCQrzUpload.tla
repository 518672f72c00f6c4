---------------------------- MODULE MCQrzUpload ----------------------------
EXTENDS QrzUpload
=============================================================================
