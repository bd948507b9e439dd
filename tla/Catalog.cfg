SPECIFICATION Spec
CONSTANTS
  Organizations = {o1, o2}
  Brands = {b1, b2}
  Requests = {r1, r2}
  None = None
INVARIANTS TypeOK LinksWereChecked BrandsHaveOrganization
SYMMETRY Symmetry
