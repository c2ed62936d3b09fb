------------------------------ MODULE MCPagination ------------------------------
(* A short list, read in every pattern.                                     *)
EXTENDS Pagination
==============================================================================
