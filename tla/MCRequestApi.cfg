\* Three concurrent HTTP requests over the routes of NewRouter, sharing the
\* unbuffered channel to one request service: the handlers refine
\* ApiContract (each writes the response to its own request, once), and
\* they never all wait on each other with the service (deadlock).
CONSTANTS
    Clients = {c1, c2, c3}
    Ids <- MCIds
    NoId = NoId
    NoReq = NoReq
SYMMETRY MCSymmetry
SPECIFICATION Spec
PROPERTY ApiRefinement
