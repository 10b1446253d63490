----------------------- MODULE MCPaginationImplements -----------------------
(* The small instances of Pagination, to compare with the enumeration.        *)
EXTENDS PaginationImplements, MCPagination
=============================================================================
